---------------------------- MODULE Spec2Model ----------------------------
(***************************************************************************)
(* A model of the go-dcpp hub's IRC bridge (ServeIRC, ircHandshake,        *)
(* ircAccept, ircPeer) together with the hub directory it drives, and of   *)
(* the ADC packet codec (DecodePacket and the eight packet kinds).         *)
(*                                                                         *)
(* Spec      : the hub; one goroutine per connection running ServeIRC,     *)
(*             plus one goroutine that closes peers found in the directory.*)
(* SpecCodec : the codec; packets and frames drawn from bounded sets, then *)
(*             marshalled and decoded.                                     *)
(*                                                                         *)
(* Strings and frames are sequences of byte values.  Sections of code that *)
(* run under the hub's peers lock are one action each; a write to a peer's *)
(* connection (under its write mutex) is atomic.                           *)
(***************************************************************************)
EXTENDS Integers, Sequences, FiniteSets, TLC

\* ------------------------------------------------------------------ bounds

\* Number of IRC connections (one ServeIRC goroutine each).
NumConns == 2
\* Longest payload of a packet drawn for the codec.
MaxData == 2
\* Longest free tail appended to a truncated frame header.
MaxFree == 3
\* Longest name given to validateUserName.
MaxName == 2

\* --------------------------------------------------------------- variables

VARIABLES
    \* hub.peers: the three maps and the cached peer list
    reserved,     \* h.peers.reserved: the set of reserved names
    byName,       \* h.peers.byName: name -> peer (NoPeer when absent)
    bySID,        \* h.peers.bySID: sid -> peer (NoPeer when absent)
    peerList,     \* the cached list behind listPeers (invalid after a mutation)
    members,      \* h.globalChat: the peers subscribed to the main chat
    lastSID,      \* the counter behind nextSID
    \* per connection: the locals of ServeIRC / ircHandshake and the ircPeer
    pc,           \* position of the connection's goroutine
    name,         \* ircHandshake's name, then ircPeer.name
    tname,        \* ircHandshake's tname while the first USER is awaited
    sid,          \* BasePeer.sid (0 before the peer is built)
    notify,       \* ircAccept's notify list between unlock and broadcast
    closed,       \* ircPeer.closed
    closeMu,      \* ircPeer.closeMu: 0 when free, else the goroutine holding it
    \* the goroutine that closes peers it looked up in the directory
    ext,
    \* observation of the run (history, not program state)
    resOwner,     \* which connection installed each reservation
    connCloses,   \* how many times conn.Close() ran, per peer
    leaveCalls,   \* how many times hub.leave ran, per peer
    closeRet,     \* whether some Close call on the peer has returned
    wrote,        \* the messages handed to WriteMessage by the last step
    lastIn,       \* the message the last step read from a connection, if any
    heard,        \* per connection, the peers whose JOIN was written to it
    \* the codec
    cPkt, cWire, cOut, cStep,
    \* the user database
    userDB,       \* h.userDB: nil, or the database and its users map
    uCall,        \* the last call of RegisterUser, IsRegistered, validateUserName
    \* the client's Peer.Dial
    dPeer,        \* the peer dialled: online, has TCP4, has a SID
    dPc,          \* position of the goroutine inside Dial / dialPassive
    dCtx,         \* the caller's context: live, canceled or deadline
    dDerived,     \* the context made by WithCancel is done
    dToken,       \* the token registered by revConnToken
    dReady,       \* the channels caddr and errc that hold a value
    dWake,        \* the select case for which the blocked goroutine was woken
    dConn,        \* the connection to the peer made by adc.Dial
    dRet,         \* the error Dial returned ("" for nil)
    \* the client's Peer.handshakeActive
    aPc,          \* position of the goroutine inside handshakeActive
    aExpect,      \* p.Info().Id and the token argument
    aSup,         \* peerFeatures as unmarshalled
    aInf,         \* the adc.User unmarshalled from the peer's identification
    aOut,         \* the commands handed to conn.WriteCmd, in order
    aRet,         \* the error handshakeActive returned ("" for nil)
    \* the locks taken by concurrent calls of ircPeer.Close
    kPc,          \* per goroutine, its position inside Close
    kPeer,        \* per goroutine, the peer it closes
    kCloseMu,     \* per peer, the holder of closeMu (0 when free)
    kMu,          \* per peer, the goroutines holding mu for reading
    kWmu,         \* per peer, the holder of wmu (0 when free)
    kDirMu,       \* the holder of the directory lock (0 when free)
    kClosed,      \* per peer, the closed flag
    kDir,         \* the peers in the directory
    kTodo         \* per goroutine, the peers its leave has yet to notify

hubVars == <<reserved, byName, bySID, peerList, members, lastSID, pc, name,
             tname, sid, notify, closed, closeMu, ext, resOwner, connCloses,
             leaveCalls, closeRet, wrote, lastIn, heard>>
codecVars == <<cPkt, cWire, cOut, cStep>>
usersVars == <<userDB, uCall>>
dialVars == <<dPeer, dPc, dCtx, dDerived, dToken, dReady, dWake, dConn, dRet>>
activeVars == <<aPc, aExpect, aSup, aInf, aOut, aRet>>
locksVars == <<kPc, kPeer, kCloseMu, kMu, kWmu, kDirMu, kClosed, kDir, kTodo>>
auxVars == <<usersVars, dialVars, activeVars, locksVars>>
vars == <<hubVars, codecVars, auxVars>>

\* ------------------------------------------------------------ hub: values

Conns == 1 .. NumConns
NoPeer == 0
\* The goroutine id of the closer; connection goroutines are their Conns id.
ExtId == NumConns + 1

\* Nicknames as byte strings: "a", "b", and "#a" (fails validation).
NameA == <<97>>
NameB == <<98>>
NameHash == <<35, 97>>
NoName == <<>>
NickInputs == {NameA, NameB, NameHash}
\* const ircHubChan = "#hub"
ircHubChan == <<35, 104, 117, 98>>
\* A channel other than #hub, for JOIN and PRIVMSG targets.
OtherChan == <<35, 120>>
\* The name of the main chat room (the anonymous room).
GlobalRoom == <<>>

\* unicode.IsSpace on the ASCII range, as strings.TrimSpace uses it.
IsSpace(b) == b \in {9, 10, 11, 12, 13, 32}

RECURSIVE TrimLeft(_)
TrimLeft(s) ==
    IF s # <<>> /\ IsSpace(Head(s)) THEN TrimLeft(Tail(s)) ELSE s

RECURSIVE TrimRight(_)
TrimRight(s) ==
    IF s # <<>> /\ IsSpace(s[Len(s)])
    THEN TrimRight(SubSeq(s, 1, Len(s) - 1))
    ELSE s

TrimSpace(s) == TrimRight(TrimLeft(s))

HasPrefix(s, p) == Len(s) >= Len(p) /\ SubSeq(s, 1, Len(p)) = p

\* Hub.validateUserName: TRUE when it returns nil.
validateUserName(n) ==
    IF n = <<>> THEN FALSE
    ELSE IF HasPrefix(n, <<35>>) THEN FALSE
    ELSE IF HasPrefix(n, <<33>>) THEN FALSE
    ELSE IF n # TrimSpace(n) THEN FALSE
    ELSE TRUE

\* A message handed to WriteMessage: receiver, command, the peer or name it
\* is about (its prefix or parameter), and the target parameter if any.
Msg(to, cmd, about, dst) == [to |-> to, cmd |-> cmd, about |-> about, dst |-> dst]

\* A message returned by ReadMessage on connection c: what it is (or the
\* read error) and its first parameter where the code looks at it.
In(c, cmd, arg) == [conn |-> c, cmd |-> cmd, arg |-> arg]
\* The step read nothing.
NoIn == In(NoPeer, "none", NoName)


\* ------------------------------------------- hub: directory and registry

InvalidList == [valid |-> FALSE, list |-> {}]
CacheOf(l) == [valid |-> TRUE, list |-> l]

\* The peers held by a by-SID (or by-name) index.
EntriesOf(m) == {m[k] : k \in DOMAIN m} \ {NoPeer}
\* The keys present in an index.
KeysOf(m) == {k \in DOMAIN m : m[k] # NoPeer}

\* h.listPeers(): the cached list, rebuilt from the by-SID index when a
\* mutation has invalidated it.
listPeers(cache, bs) == IF cache.valid THEN cache.list ELSE EntriesOf(bs)

\* h.Peers(): the snapshot an observer gets in the current state.
Peers == listPeers(peerList, bySID)

\* h.PeerByName(name), h.PeerBySID(sid): NoPeer when absent.
PeerByName(n) == IF n \in DOMAIN byName THEN byName[n] ELSE NoPeer
PeerBySID(s) == IF s \in DOMAIN bySID THEN bySID[s] ELSE NoPeer

\* h.nameAvailable(name, nil): no live and no reserved entry holds the name.
nameAvailable(n) == n \notin reserved /\ PeerByName(n) = NoPeer

\* ------------------------------------------------- hub: ircPeer methods

\* ircPeer.ChatMsg(room, from, msg) on peer p: the messages it writes.
ChatMsg_Echo(p, room, from) ==
    IF room # <<>> THEN {}
    ELSE {Msg(p, "PRIVMSG", from, ircHubChan)}

ChatMsg(p, room, from) ==
    IF p = from THEN {}
    ELSE IF room # <<>> THEN {}
    ELSE {Msg(p, "PRIVMSG", from, ircHubChan)}

\* ircPeer.PrivateMsg written to every subscriber instead of to p alone.
PrivateMsg_ToAll(p, from) ==
    {Msg(q, "PRIVMSG", from, name[p]) : q \in members \cup {p}}

\* ircPeer.PrivateMsg(from, msg) on peer p: Params[0] is p.Name().
PrivateMsg(p, from) == {Msg(p, "PRIVMSG", from, name[p])}

\* ircPeer.PeersJoin(peers) on peer p: one JOIN per listed peer.
PeersJoin(p, peers) == {Msg(p, "JOIN", q, ircHubChan) : q \in peers}

\* ircPeer.PeersLeave(peers) on peer p: one PART per listed peer.
PeersLeave(p, peers) == {Msg(p, "PART", q, ircHubChan) : q \in peers}

\* ircPeer.BroadcastJoin / h.broadcastUserJoin(peer, notify).
BroadcastJoin(p, peers) == UNION {PeersJoin(p2, {p}) : p2 \in peers}

\* ircPeer.BroadcastLeave / h.broadcastUserLeave(peer, notify).
BroadcastLeave(p, peers) == UNION {PeersLeave(p2, {p}) : p2 \in peers}

\* h.globalChat.SendChat(sender, text): ChatMsg on every subscriber.
SendChat(from) == UNION {ChatMsg(p, GlobalRoom, from) : p \in members}

\* The 433 reply of the NICK loop.
NickTaken(c, n) == {Msg(c, "433", NoPeer, n)}

\* The welcome numerics 001..005 of ircAccept.
Numerics == <<"001", "002", "003", "004", "005">>

\* The record of the JOINs handed to WriteMessage: each connection with the
\* other peers that the messages written by the step announce to it.
Hears ==
    [c \in Conns |->
        heard[c] \cup {m.about : m \in {w \in wrote' : /\ w.to = c
                                                       /\ w.cmd = "JOIN"
                                                       /\ w.about # c}}]

\* ------------------------------------------------------------- hub: Init

HubInit ==
    /\ reserved = {}
    /\ byName = [n \in NickInputs |-> NoPeer]
    /\ bySID = [s \in Conns |-> NoPeer]
    /\ peerList = InvalidList
    /\ members = {}
    /\ lastSID = 0
    /\ pc = [c \in Conns |-> "nick"]
    /\ name = [c \in Conns |-> NoName]
    /\ tname = [c \in Conns |-> NoName]
    /\ sid = [c \in Conns |-> 0]
    /\ notify = [c \in Conns |-> {}]
    /\ closed = [c \in Conns |-> FALSE]
    /\ closeMu = [c \in Conns |-> 0]
    /\ ext = [pc |-> "idle", p |-> NoPeer]
    /\ resOwner = [n \in NickInputs |-> NoPeer]
    /\ connCloses = [c \in Conns |-> 0]
    /\ leaveCalls = [c \in Conns |-> 0]
    /\ closeRet = [c \in Conns |-> FALSE]
    /\ wrote = {}
    /\ lastIn = NoIn
    /\ heard = [c \in Conns |-> {}]

dirVars == <<reserved, byName, bySID, peerList, members, resOwner>>
closeVars == <<closed, closeMu, ext, connCloses, leaveCalls, closeRet>>

\* --------------------------------------------------- hub: ircHandshake

\* Lines 95-119 with the USER command awaited on every iteration.
ReadNick_AlwaysUser(c) ==
    /\ pc[c] = "nick"
    /\ \E kind \in {"err", "user", "bad", "nick"}, in \in NickInputs :
         /\ lastIn' = In(c, kind, IF kind = "nick" THEN in ELSE NoName)
         /\ IF kind # "nick"
            THEN /\ pc' = [pc EXCEPT ![c] = "failed"]
                 /\ UNCHANGED <<name, tname>>
            ELSE /\ tname' = [tname EXCEPT ![c] = in]
                 /\ pc' = [pc EXCEPT ![c] = "user"]
                 /\ UNCHANGED name
    /\ wrote' = {}
    /\ UNCHANGED <<codecVars, auxVars, dirVars, closeVars, lastSID, sid, notify>>
    /\ heard' = Hears

\* Lines 95-101 and 115-119: read one message, which must be a NICK with one
\* parameter (a read error, a USER or any other message returns an error);
\* on a later iteration the name is taken over and validated at once.
ReadNick(c) ==
    /\ pc[c] = "nick"
    /\ \E kind \in {"err", "user", "bad", "nick"}, in \in NickInputs :
         /\ lastIn' = In(c, kind, IF kind = "nick" THEN in ELSE NoName)
         /\ IF kind # "nick"
            THEN /\ pc' = [pc EXCEPT ![c] = "failed"]
                 /\ UNCHANGED <<name, tname>>
            ELSE IF name[c] = NoName
            THEN /\ tname' = [tname EXCEPT ![c] = in]
                 /\ pc' = [pc EXCEPT ![c] = "user"]
                 /\ UNCHANGED name
            ELSE /\ name' = [name EXCEPT ![c] = in]
                 /\ pc' = [pc EXCEPT ![c] =
                              IF validateUserName(in) THEN "avail" ELSE "failed"]
                 /\ UNCHANGED tname
    /\ wrote' = {}
    /\ UNCHANGED <<codecVars, auxVars, dirVars, closeVars, lastSID, sid, notify>>
    /\ heard' = Hears

\* Lines 103-119: the first iteration also reads a message, which must be a
\* USER with 4 parameters ("user3": a USER with 3), then validates.
ReadUser(c) ==
    /\ pc[c] = "user"
    /\ \E in \in {"err", "bad", "nick", "user3", "user"} :
         /\ lastIn' = In(c, in, NoName)
         /\ IF in # "user"
            THEN /\ pc' = [pc EXCEPT ![c] = "failed"]
                 /\ tname' = [tname EXCEPT ![c] = NoName]
                 /\ UNCHANGED name
            ELSE /\ name' = [name EXCEPT ![c] = tname[c]]
                 /\ tname' = [tname EXCEPT ![c] = NoName]
                 /\ pc' = [pc EXCEPT ![c] =
                              IF validateUserName(tname[c]) THEN "avail" ELSE "failed"]
    /\ wrote' = {}
    /\ UNCHANGED <<codecVars, auxVars, dirVars, closeVars, lastSID, sid, notify>>
    /\ heard' = Hears

\* Lines 121-128: the unlocked availability check and its 433.
CheckAvailable(c) ==
    /\ pc[c] = "avail"
    /\ IF nameAvailable(name[c])
       THEN /\ pc' = [pc EXCEPT ![c] = "reserve"]
            /\ wrote' = {}
       ELSE /\ pc' = [pc EXCEPT ![c] = "nick"]
            /\ wrote' = NickTaken(c, name[c])
    /\ lastIn' = NoIn
    /\ UNCHANGED <<codecVars, auxVars, dirVars, closeVars, lastSID, name, tname, sid, notify>>
    /\ heard' = Hears

\* Lines 130-159 with the ok of reserveName ignored.
Reserve_IgnoreOk(c) ==
    /\ pc[c] = "reserve"
    /\ IF nameAvailable(name[c])
       THEN /\ reserved' = reserved \cup {name[c]}
            /\ resOwner' = [resOwner EXCEPT ![name[c]] = c]
            /\ peerList' = InvalidList
       ELSE UNCHANGED <<reserved, resOwner, peerList>>
    /\ lastSID' = lastSID + 1
    /\ sid' = [sid EXCEPT ![c] = lastSID + 1]
    /\ pc' = [pc EXCEPT ![c] = "welcome"]
    /\ wrote' = {}
    /\ lastIn' = NoIn
    /\ UNCHANGED <<codecVars, auxVars, byName, bySID, members, closeVars, name, tname, notify>>
    /\ heard' = Hears

\* Lines 130-159: reserveName checks and installs the reservation in one
\* locked section; on ok the loop is left and the peer is built with the
\* next SID, otherwise 433 is sent and the loop continues.
Reserve(c) ==
    /\ pc[c] = "reserve"
    /\ IF nameAvailable(name[c])
       THEN /\ reserved' = reserved \cup {name[c]}
            /\ resOwner' = [resOwner EXCEPT ![name[c]] = c]
            /\ peerList' = InvalidList
            /\ lastSID' = lastSID + 1
            /\ sid' = [sid EXCEPT ![c] = lastSID + 1]
            /\ pc' = [pc EXCEPT ![c] = "welcome"]
            /\ wrote' = {}
       ELSE /\ pc' = [pc EXCEPT ![c] = "nick"]
            /\ wrote' = NickTaken(c, name[c])
            /\ UNCHANGED <<reserved, resOwner, peerList, lastSID, sid>>
    /\ lastIn' = NoIn
    /\ UNCHANGED <<codecVars, auxVars, byName, bySID, members, closeVars, name, tname, notify>>
    /\ heard' = Hears

\* Lines 161-165 without the unbind call.
Unbind_Forgotten(c) ==
    /\ pc[c] = "unbind"
    /\ pc' = [pc EXCEPT ![c] = "failed"]
    /\ wrote' = {}
    /\ lastIn' = NoIn
    /\ UNCHANGED <<codecVars, auxVars, dirVars, closeVars, lastSID, name, tname, sid, notify>>
    /\ heard' = Hears

\* Lines 161-165: ircAccept returned an error; unbind() deletes the
\* reservation under the lock and the handshake returns the error.
Unbind(c) ==
    /\ pc[c] = "unbind"
    /\ reserved' = reserved \ {name[c]}
    /\ resOwner' = [resOwner EXCEPT ![name[c]] = NoPeer]
    /\ peerList' = InvalidList
    /\ pc' = [pc EXCEPT ![c] = "failed"]
    /\ wrote' = {}
    /\ lastIn' = NoIn
    /\ UNCHANGED <<codecVars, auxVars, byName, bySID, members, closeVars, lastSID, name, tname,
                   sid, notify>>
    /\ heard' = Hears

\* ------------------------------------------------------ hub: ircAccept

\* Lines 171-242: the five welcome numerics, written to the peer's own
\* connection; k of them succeed and the first failure returns the error.
Welcome(c) ==
    /\ pc[c] = "welcome"
    /\ \E k \in 0 .. 5 :
         /\ wrote' = {Msg(c, Numerics[i], NoPeer, name[c]) :
                         i \in 1 .. (IF k < 5 THEN k + 1 ELSE 5)}
         /\ pc' = [pc EXCEPT ![c] = IF k = 5 THEN "waitjoin" ELSE "unbind"]
    /\ lastIn' = NoIn
    /\ UNCHANGED <<codecVars, auxVars, dirVars, closeVars, lastSID, name, tname, sid, notify>>
    /\ heard' = Hears

\* Lines 245-271 with the JOIN of any channel accepted.
WaitJoin_AnyChannel(c) ==
    /\ pc[c] = "waitjoin"
    /\ \E in \in {"err", "ping", "pingfail", "joinparams", "joinother",
                  "joinhub", "other"} :
         /\ lastIn' = In(c, in, NoName)
         /\ wrote' = IF in \in {"ping", "pingfail"}
                     THEN {Msg(c, "PONG", NoPeer, NoName)}
                     ELSE {}
         /\ pc' = [pc EXCEPT ![c] =
                      CASE in \in {"err", "pingfail", "joinparams"} -> "unbind"
                        [] in \in {"joinhub", "joinother"} -> "echo"
                        [] OTHER -> "waitjoin"]
    /\ UNCHANGED <<codecVars, auxVars, dirVars, closeVars, lastSID, name, tname, sid, notify>>
    /\ heard' = Hears

\* Lines 245-271: one message read while waiting for JOIN #hub.
WaitJoin(c) ==
    /\ pc[c] = "waitjoin"
    /\ \E in \in {"err", "ping", "pingfail", "joinparams", "joinother",
                  "joinhub", "other"} :
         /\ lastIn' = In(c, in, NoName)
         /\ wrote' = IF in \in {"ping", "pingfail"}
                     THEN {Msg(c, "PONG", NoPeer, NoName)}
                     ELSE {}
         /\ pc' = [pc EXCEPT ![c] =
                      CASE in \in {"err", "pingfail", "joinparams", "joinother"}
                             -> "unbind"
                        [] in = "joinhub" -> "echo"
                        [] OTHER -> "waitjoin"]
    /\ UNCHANGED <<codecVars, auxVars, dirVars, closeVars, lastSID, name, tname, sid, notify>>
    /\ heard' = Hears

\* Lines 272-279: the echo of the user's own JOIN.
EchoJoin(c) ==
    /\ pc[c] = "echo"
    /\ wrote' = {Msg(c, "JOIN", c, ircHubChan)}
    /\ \E ok \in BOOLEAN :
         pc' = [pc EXCEPT ![c] = IF ok THEN "roster" ELSE "unbind"]
    /\ lastIn' = NoIn
    /\ UNCHANGED <<codecVars, auxVars, dirVars, closeVars, lastSID, name, tname, sid, notify>>
    /\ heard' = Hears

\* Lines 280-283: h.Peers() takes (and caches) the snapshot, PeersJoin writes
\* one JOIN per listed peer to the new peer; a failed write returns the error
\* after the JOINs of some non-empty part of the list were attempted.
Roster(c) ==
    /\ pc[c] = "roster"
    /\ peerList' = CacheOf(Peers)
    /\ \E ok \in BOOLEAN, done \in SUBSET Peers :
         /\ ok => done = Peers
         /\ ~ok => done # {}
         /\ wrote' = PeersJoin(c, done)
         /\ pc' = [pc EXCEPT ![c] = IF ok THEN "accept" ELSE "unbind"]
    /\ lastIn' = NoIn
    /\ UNCHANGED <<codecVars, auxVars, reserved, byName, bySID, members, resOwner, closeVars,
                   lastSID, name, tname, sid, notify>>
    /\ heard' = Hears

\* Lines 285-294 without the delete of the reservation.
Accept_KeepReservation(c) ==
    /\ pc[c] = "accept"
    /\ byName' = [byName EXCEPT ![name[c]] = c]
    /\ bySID' = [bySID EXCEPT ![sid[c]] = c]
    /\ peerList' = CacheOf(listPeers(InvalidList, bySID'))
    /\ notify' = [notify EXCEPT ![c] = listPeers(InvalidList, bySID')]
    /\ members' = members \cup {c}
    /\ pc' = [pc EXCEPT ![c] = "bcast"]
    /\ wrote' = {}
    /\ lastIn' = NoIn
    /\ UNCHANGED <<codecVars, auxVars, reserved, resOwner, closeVars, lastSID, name, tname, sid>>
    /\ heard' = Hears

\* Lines 285-294 without the insert into the by-SID index.
Accept_NoSID(c) ==
    /\ pc[c] = "accept"
    /\ reserved' = reserved \ {name[c]}
    /\ resOwner' = [resOwner EXCEPT ![name[c]] = NoPeer]
    /\ byName' = [byName EXCEPT ![name[c]] = c]
    /\ peerList' = CacheOf(listPeers(InvalidList, bySID))
    /\ notify' = [notify EXCEPT ![c] = listPeers(InvalidList, bySID)]
    /\ members' = members \cup {c}
    /\ pc' = [pc EXCEPT ![c] = "bcast"]
    /\ wrote' = {}
    /\ lastIn' = NoIn
    /\ UNCHANGED <<codecVars, auxVars, bySID, closeVars, lastSID, name, tname, sid>>
    /\ heard' = Hears

\* Lines 285-294: the locked section that promotes the reservation to a live
\* entry, invalidates and rebuilds the list (notify) and joins the main chat.
Accept(c) ==
    /\ pc[c] = "accept"
    /\ reserved' = reserved \ {name[c]}
    /\ resOwner' = [resOwner EXCEPT ![name[c]] = NoPeer]
    /\ byName' = [byName EXCEPT ![name[c]] = c]
    /\ bySID' = [bySID EXCEPT ![sid[c]] = c]
    /\ peerList' = CacheOf(listPeers(InvalidList, bySID'))
    /\ notify' = [notify EXCEPT ![c] = listPeers(InvalidList, bySID')]
    /\ members' = members \cup {c}
    /\ pc' = [pc EXCEPT ![c] = "bcast"]
    /\ wrote' = {}
    /\ lastIn' = NoIn
    /\ UNCHANGED <<codecVars, auxVars, closeVars, lastSID, name, tname, sid>>
    /\ heard' = Hears

\* Line 296: h.broadcastUserJoin(peer, notify) after the unlock; every peer
\* of notify is sent the JOIN of the new peer.
BroadcastUserJoin(c) ==
    /\ pc[c] = "bcast"
    /\ wrote' = BroadcastJoin(c, notify[c])
    /\ notify' = [notify EXCEPT ![c] = {}]
    /\ pc' = [pc EXCEPT ![c] = "joined"]
    /\ lastIn' = NoIn
    /\ UNCHANGED <<codecVars, auxVars, dirVars, closeVars, lastSID, name, tname, sid>>
    /\ heard' = Hears

\* ------------------------------------------------------- hub: ServeIRC

\* Lines 34-38: Close is deferred; a false callOnJoined returns at once.
CallOnJoined(c) ==
    /\ pc[c] = "joined"
    /\ \E ok \in BOOLEAN :
         pc' = [pc EXCEPT ![c] = IF ok THEN "serve" ELSE "close_lock"]
    /\ wrote' = {}
    /\ lastIn' = NoIn
    /\ UNCHANGED <<codecVars, auxVars, dirVars, closeVars, lastSID, name, tname, sid, notify>>
    /\ heard' = Hears

\* Lines 40-73: one message of the steady-state loop.  Once conn.Close() has
\* run, a read only returns an error.
ServeRead(c) ==
    /\ pc[c] = "serve"
    /\ \E in \in {"eof", "err", "ping", "pingfail", "badprivmsg", "chat",
                  "pm", "quit", "other"}, target \in NickInputs :
         /\ connCloses[c] > 0 => in = "err"
         /\ lastIn' = In(c, in, IF in = "pm" THEN target ELSE NoName)
         /\ wrote' =
              CASE in \in {"ping", "pingfail"} -> {Msg(c, "PONG", NoPeer, NoName)}
                [] in = "chat" -> SendChat(c)
                [] in = "pm" -> IF PeerByName(target) # NoPeer
                                THEN PrivateMsg(PeerByName(target), c)
                                ELSE {}
                [] OTHER -> {}
         /\ pc' = [pc EXCEPT ![c] =
                      IF in \in {"eof", "err", "pingfail", "badprivmsg", "quit"}
                      THEN "close_lock"
                      ELSE "serve"]
    /\ UNCHANGED <<codecVars, auxVars, dirVars, closeVars, lastSID, name, tname, sid, notify>>
    /\ heard' = Hears

\* -------------------------------------------------- hub: ircPeer.Close

Goroutines == Conns \cup {ExtId}

\* Goroutine g is inside Close on peer p, at the given stage.  A connection's
\* goroutine closes its own peer (the deferred Close of ServeIRC).
AtClose(g, p, stage) ==
    IF g = ExtId
    THEN ext.pc = stage /\ ext.p = p
    ELSE g = p /\ pc[g] = stage

\* Goroutine g moves to another stage of Close.
GoClose(g, stage) ==
    IF g = ExtId
    THEN /\ ext' = [ext EXCEPT !.pc = stage]
         /\ UNCHANGED pc
    ELSE /\ pc' = [pc EXCEPT ![g] = stage]
         /\ UNCHANGED ext

\* Goroutine g returns from Close (the deferred unlocks have run).
ReturnClose(g, p) ==
    /\ closeMu' = [closeMu EXCEPT ![p] = 0]
    /\ closeRet' = [closeRet EXCEPT ![p] = TRUE]
    /\ IF g = ExtId
       THEN /\ ext' = [pc |-> "idle", p |-> NoPeer]
            /\ UNCHANGED pc
       ELSE /\ pc' = [pc EXCEPT ![g] = "done"]
            /\ UNCHANGED ext

\* Another goroutine (a kick, the hub shutting down) finds a peer in the
\* directory and calls Close on it.
ExtLookup ==
    /\ ext.pc = "idle"
    /\ \E p \in EntriesOf(bySID) : ext' = [pc |-> "close_lock", p |-> p]
    /\ wrote' = {}
    /\ lastIn' = NoIn
    /\ UNCHANGED <<codecVars, auxVars, dirVars, closed, closeMu, connCloses, leaveCalls, closeRet,
                   lastSID, pc, name, tname, sid, notify>>
    /\ heard' = Hears

\* Lines 352-355: closeMu.Lock() (mu.RLock() has no writer to wait for).
CloseLock(g, p) ==
    /\ AtClose(g, p, "close_lock")
    /\ closeMu[p] = 0
    /\ closeMu' = [closeMu EXCEPT ![p] = g]
    /\ GoClose(g, "close_check")
    /\ wrote' = {}
    /\ lastIn' = NoIn
    /\ UNCHANGED <<codecVars, auxVars, dirVars, closed, connCloses, leaveCalls, closeRet, lastSID,
                   name, tname, sid, notify>>
    /\ heard' = Hears

\* Lines 356-360 without the test of the closed flag.
CloseCheck_NoGuard(g, p) ==
    /\ AtClose(g, p, "close_check")
    /\ closeMu[p] = g
    /\ connCloses' = [connCloses EXCEPT ![p] = @ + 1]
    /\ closed' = [closed EXCEPT ![p] = TRUE]
    /\ GoClose(g, "close_leave")
    /\ UNCHANGED <<closeMu, closeRet>>
    /\ wrote' = {}
    /\ lastIn' = NoIn
    /\ UNCHANGED <<codecVars, auxVars, dirVars, leaveCalls, lastSID, name, tname, sid, notify>>
    /\ heard' = Hears

\* Lines 356-360: an already closed peer returns nil; otherwise conn.Close()
\* runs and the closed flag is set.
CloseCheck(g, p) ==
    /\ AtClose(g, p, "close_check")
    /\ closeMu[p] = g
    /\ IF closed[p]
       THEN /\ ReturnClose(g, p)
            /\ UNCHANGED <<closed, connCloses>>
       ELSE /\ connCloses' = [connCloses EXCEPT ![p] = @ + 1]
            /\ closed' = [closed EXCEPT ![p] = TRUE]
            /\ GoClose(g, "close_leave")
            /\ UNCHANGED <<closeMu, closeRet>>
    /\ wrote' = {}
    /\ lastIn' = NoIn
    /\ UNCHANGED <<codecVars, auxVars, dirVars, leaveCalls, lastSID, name, tname, sid, notify>>
    /\ heard' = Hears

\* h.leave(peer, sid, name, nil): under the lock the entry is removed from
\* both indices and from the main chat and the list is rebuilt; after the
\* unlock the departure is broadcast to the peers of that list.  A leave of a
\* peer that is not in the directory does nothing.
HubLeave(p) ==
    IF PeerBySID(sid[p]) = p
    THEN /\ byName' = [byName EXCEPT ![name[p]] = NoPeer]
         /\ bySID' = [bySID EXCEPT ![sid[p]] = NoPeer]
         /\ peerList' = CacheOf(listPeers(InvalidList, bySID'))
         /\ members' = members \ {p}
         /\ wrote' = BroadcastLeave(p, listPeers(InvalidList, bySID'))
    ELSE /\ wrote' = {}
         /\ UNCHANGED <<byName, bySID, peerList, members>>

\* Lines 362-363 without the hub.leave call.
CloseLeave_NoLeave(g, p) ==
    /\ AtClose(g, p, "close_leave")
    /\ closeMu[p] = g
    /\ ReturnClose(g, p)
    /\ wrote' = {}
    /\ lastIn' = NoIn
    /\ UNCHANGED <<codecVars, auxVars, dirVars, leaveCalls, closed, connCloses, lastSID, name,
                   tname, sid, notify>>
    /\ heard' = Hears

\* Lines 362-363: hub.leave, then Close returns.
CloseLeave(g, p) ==
    /\ AtClose(g, p, "close_leave")
    /\ closeMu[p] = g
    /\ leaveCalls' = [leaveCalls EXCEPT ![p] = @ + 1]
    /\ HubLeave(p)
    /\ ReturnClose(g, p)
    /\ lastIn' = NoIn
    /\ UNCHANGED <<codecVars, auxVars, reserved, resOwner, closed, connCloses, lastSID, name,
                   tname, sid, notify>>
    /\ heard' = Hears

\* ------------------------------------------------------ codec: bytes

\* const kindBroadcast = 'B' ... kindUDP = 'U'
kindBroadcast == 66
kindClient == 67
kindDirect == 68
kindEcho == 69
kindFeature == 70
kindHub == 72
kindInfo == 73
kindUDP == 85
Kinds == {kindBroadcast, kindClient, kindDirect, kindEcho, kindFeature,
          kindHub, kindInfo, kindUDP}

\* lineDelim, the frame terminator 0x0a.
lineDelim == 10
\* The byte literals ' ', '+', '-' and the null character "\x00".
chSpace == 32
chPlus == 43
chMinus == 45
chNull == 0
\* const l = 39, the length of a CID in base32; a CID has 24 bytes.
cidTextLen == 39
cidLen == 24

\* Go's s[lo:hi] on a 0-based slice, as a sequence.
Slice(s, lo, hi) == SubSeq(s, lo + 1, hi)
\* Go's s[lo:].
SliceFrom(s, lo) == SubSeq(s, lo + 1, Len(s))

\* ------------------------------------------------- codec: SID and CID

\* SID.UnmarshalAdc(b): a SID is four bytes, taken as they are.
SIDUnmarshalOk(b) == Len(b) = 4
\* SID.MarshalAdc(): the four bytes.
SIDMarshal(id) == id

\* The base32 alphabet A-Z 2-7: the character of a 5-bit value.
B32Char(v) == IF v < 26 THEN 65 + v ELSE 50 + (v - 26)
\* The 5-bit value of a base32 character, -1 for any other byte.
B32Val(ch) ==
    IF ch >= 65 /\ ch <= 90 THEN ch - 65
    ELSE IF ch >= 50 /\ ch <= 55 THEN 26 + (ch - 50)
    ELSE -1

Pow2(n) == IF n = 0 THEN 1 ELSE IF n = 1 THEN 2 ELSE IF n = 2 THEN 4
           ELSE IF n = 3 THEN 8 ELSE IF n = 4 THEN 16 ELSE IF n = 5 THEN 32
           ELSE IF n = 6 THEN 64 ELSE 128

\* Bit i (1-based, most significant first) of a byte string, 0 past its end.
BitOfBytes(bs, i) ==
    IF i > 8 * Len(bs) THEN 0
    ELSE (bs[((i - 1) \div 8) + 1] \div Pow2(7 - ((i - 1) % 8))) % 2

\* Bit i of a string of base32 characters.
BitOfText(t, i) ==
    (B32Val(t[((i - 1) \div 5) + 1]) \div Pow2(4 - ((i - 1) % 5))) % 2

\* CID.ToBase32(): 24 bytes as 39 unpadded base32 characters.
ToBase32(cid) ==
    [k \in 1 .. cidTextLen |->
        B32Char(16 * BitOfBytes(cid, 5 * (k - 1) + 1)
                + 8 * BitOfBytes(cid, 5 * (k - 1) + 2)
                + 4 * BitOfBytes(cid, 5 * (k - 1) + 3)
                + 2 * BitOfBytes(cid, 5 * (k - 1) + 4)
                + BitOfBytes(cid, 5 * (k - 1) + 5))]

\* CID.FromBase32(s) succeeds: 39 characters of the alphabet.
FromBase32Ok(t) ==
    /\ Len(t) = cidTextLen
    /\ \A k \in 1 .. Len(t) : B32Val(t[k]) >= 0

\* CID.FromBase32(s): the 24 bytes; the last three bits are dropped.
FromBase32(t) ==
    [m \in 1 .. cidLen |->
        128 * BitOfText(t, 8 * (m - 1) + 1) + 64 * BitOfText(t, 8 * (m - 1) + 2)
        + 32 * BitOfText(t, 8 * (m - 1) + 3) + 16 * BitOfText(t, 8 * (m - 1) + 4)
        + 8 * BitOfText(t, 8 * (m - 1) + 5) + 4 * BitOfText(t, 8 * (m - 1) + 6)
        + 2 * BitOfText(t, 8 * (m - 1) + 7) + BitOfText(t, 8 * (m - 1) + 8)]

\* ---------------------------------------------------- codec: packets

\* A packet of any kind; the fields a kind does not have keep their zero
\* value.  Features is a map tag -> bool, held as a set of <<tag, bool>>
\* with one pair per tag.
Packet(kind, nm, id, targ, cid, fea, data) ==
    [kind |-> kind, name |-> nm, id |-> id, targ |-> targ, cid |-> cid,
     fea |-> fea, data |-> data]

NoSID == <<0, 0, 0, 0>>
NoCID == [i \in 1 .. cidLen |-> 0]
NoPkt == Packet(0, <<>>, NoSID, NoSID, NoCID, {}, <<>>)

\* The result of DecodePacket: err is "" when a packet is returned; oob
\* tells that a slice expression reached past the end of the frame.
Decoded(pkt) == [err |-> "", pkt |-> pkt, oob |-> FALSE]
Failed(err) == [err |-> err, pkt |-> NoPkt, oob |-> FALSE]
NoOut == Failed("none")

\* p.Features[fea] = true, whatever the sigil.
SetFeature_AlwaysTrue(fea, tag, v) ==
    (fea \ {<<tag, TRUE>>, <<tag, FALSE>>}) \cup {<<tag, TRUE>>}

\* p.Features[fea] = v
SetFeature(fea, tag, v) ==
    (fea \ {<<tag, TRUE>>, <<tag, FALSE>>}) \cup {<<tag, v>>}

\* ------------------------------------------- codec: UnmarshalPacket

\* InfoPacket.UnmarshalPacket
InfoUnmarshal(nm, data) ==
    IF Len(data) # 0 /\ data[Len(data)] # lineDelim
    THEN Failed("invalid packet delimiter")
    ELSE Decoded(Packet(kindInfo, nm, NoSID, NoSID, NoCID, {},
                        IF Len(data) # 0 THEN Slice(data, 0, Len(data) - 1)
                        ELSE data))

\* HubPacket.UnmarshalPacket
HubUnmarshal(nm, data) ==
    IF Len(data) < 1 THEN Failed("short hub command")
    ELSE IF data[Len(data)] # lineDelim THEN Failed("invalid packet delimiter")
    ELSE Decoded(Packet(kindHub, nm, NoSID, NoSID, NoCID, {},
                        Slice(data, 0, Len(data) - 1)))

\* ClientPacket.UnmarshalPacket
ClientUnmarshal(nm, data) ==
    IF Len(data) < 1 THEN Failed("short client command")
    ELSE IF data[Len(data)] # lineDelim THEN Failed("invalid packet delimiter")
    ELSE Decoded(Packet(kindClient, nm, NoSID, NoSID, NoCID, {},
                        Slice(data, 0, Len(data) - 1)))

\* BroadcastPacket.UnmarshalPacket.  data[0:4] is taken after the delimiter
\* was cut off data; a Go slice expression may reach into the capacity, so
\* with three bytes left it still yields four: the fourth is the delimiter.
BroadcastUnmarshal(nm, data) ==
    IF Len(data) < 4 THEN Failed("short broadcast command")
    ELSE IF data[Len(data)] # lineDelim THEN Failed("invalid packet delimiter")
    ELSE IF Len(data) > 4 /\ data[5] # chSpace /\ data[5] # lineDelim
    THEN Failed("separator expected")
    ELSE LET cut == Slice(data, 0, Len(data) - 1)
         IN IF ~SIDUnmarshalOk(Slice(data, 0, 4)) THEN Failed("malformed SID")
            ELSE Decoded(Packet(kindBroadcast, nm, Slice(data, 0, 4), NoSID,
                                NoCID, {},
                                IF Len(cut) > 5 THEN SliceFrom(cut, 5)
                                ELSE <<>>))

\* DirectPacket.UnmarshalPacket and EchoPacket.UnmarshalPacket (the same
\* body; kind tells them apart).
DirectUnmarshal(kind, nm, data) ==
    IF Len(data) < 9 THEN Failed("short direct command")
    ELSE IF data[Len(data)] # lineDelim THEN Failed("invalid packet delimiter")
    ELSE IF data[5] # chSpace THEN Failed("separator expected")
    ELSE IF Len(data) > 9 /\ data[10] # chSpace /\ data[10] # lineDelim
    THEN Failed("separator expected")
    ELSE LET cut == Slice(data, 0, Len(data) - 1)
         IN IF ~SIDUnmarshalOk(Slice(data, 0, 4)) THEN Failed("malformed SID")
            ELSE IF ~SIDUnmarshalOk(Slice(data, 5, 9))
            THEN Failed("malformed SID")
            ELSE Decoded(Packet(kind, nm, Slice(data, 0, 4), Slice(data, 5, 9),
                                NoCID, {},
                                IF Len(cut) > 10 THEN SliceFrom(cut, 10)
                                ELSE <<>>))

\* The loop of FeaturePacket.UnmarshalPacket (lines 684-711) from index i on;
\* room is the number of bytes of the frame from the start of data on (data
\* and what follows it in the frame).
RECURSIVE FeatureLoop(_, _, _, _)
FeatureLoop(data, i, fea, room) ==
    IF i >= Len(data) THEN [err |-> "", fea |-> fea, data |-> data, oob |-> FALSE]
    ELSE IF data[i + 1] = chPlus \/ data[i + 1] = chMinus
    THEN IF Len(data) - i < 5
         THEN [err |-> "short feature", fea |-> fea, data |-> data,
               oob |-> i + 5 > room]
         ELSE LET fea2 == SetFeature(fea, Slice(data, i + 1, i + 5),
                                     data[i + 1] = chPlus)
                  i2 == i + 4
              IN FeatureLoop(IF i2 + 1 = Len(data) THEN <<>> ELSE data,
                             i2 + 1, fea2,
                             room)
    ELSE IF data[i + 1] = chSpace
    THEN LET d2 == SliceFrom(data, i)
         IN FeatureLoop(IF 1 = Len(d2) THEN <<>> ELSE d2, 1, fea, room - i)
    ELSE [err |-> "", fea |-> fea, data |-> SliceFrom(data, i), oob |-> FALSE]

\* FeaturePacket.UnmarshalPacket
FeatureUnmarshal(nm, data) ==
    IF Len(data) < 4 THEN Failed("short feature command")
    ELSE IF data[Len(data)] # lineDelim THEN Failed("invalid packet delimiter")
    ELSE IF Len(data) > 4 /\ data[5] # chSpace /\ data[5] # lineDelim
    THEN Failed("separator expected")
    ELSE LET cut == Slice(data, 0, Len(data) - 1)
             rest == IF Len(cut) > 5 THEN SliceFrom(cut, 5) ELSE <<>>
             r == FeatureLoop(rest, 0, {}, Len(rest) + 1)
         IN IF ~SIDUnmarshalOk(Slice(data, 0, 4)) THEN Failed("malformed SID")
            ELSE IF r.err # "" THEN [Failed(r.err) EXCEPT !.oob = r.oob]
            ELSE Decoded(Packet(kindFeature, nm, Slice(data, 0, 4), NoSID,
                                NoCID, r.fea, r.data))

\* UDPPacket.UnmarshalPacket
UDPUnmarshal(nm, data) ==
    IF Len(data) < cidTextLen THEN Failed("short upd command")
    ELSE IF data[Len(data)] # lineDelim THEN Failed("invalid packet delimiter")
    ELSE IF /\ Len(data) > cidTextLen
            /\ data[cidTextLen + 1] # chSpace
            /\ data[cidTextLen + 1] # lineDelim
    THEN Failed("separator expected")
    ELSE LET cut == Slice(data, 0, Len(data) - 1)
         IN IF ~FromBase32Ok(Slice(data, 0, cidTextLen))
            THEN Failed("wrong CID in upd command")
            ELSE Decoded(Packet(kindUDP, nm, NoSID, NoSID,
                                FromBase32(Slice(data, 0, cidTextLen)), {},
                                IF Len(cut) > cidTextLen + 1
                                THEN SliceFrom(cut, cidTextLen + 1)
                                ELSE <<>>))

\* The dispatch m.UnmarshalPacket(cname, raw) of DecodePacket.
UnmarshalPacket(kind, nm, raw) ==
    CASE kind = kindInfo -> InfoUnmarshal(nm, raw)
      [] kind = kindHub -> HubUnmarshal(nm, raw)
      [] kind = kindClient -> ClientUnmarshal(nm, raw)
      [] kind = kindBroadcast -> BroadcastUnmarshal(nm, raw)
      [] kind = kindFeature -> FeatureUnmarshal(nm, raw)
      [] kind = kindUDP -> UDPUnmarshal(nm, raw)
      [] OTHER -> DirectUnmarshal(kind, nm, raw)

\* DecodePacket
DecodePacket(p) ==
    IF Len(p) < 5 THEN Failed("too short for command")
    ELSE IF \E i \in 1 .. Len(p) : p[i] = chNull
    THEN Failed("messages should not contain null characters")
    ELSE IF p[1] \notin Kinds THEN Failed("unknown command kind")
    ELSE LET rest == SliceFrom(p, 4)
         IN IF Len(rest) > 0 /\ rest[1] = chSpace
            THEN UnmarshalPacket(p[1], Slice(p, 1, 4), SliceFrom(rest, 1))
            ELSE IF Len(rest) > 0 /\ rest[1] # lineDelim
            THEN Failed("name separator expected")
            ELSE UnmarshalPacket(p[1], Slice(p, 1, 4), <<>>)

\* --------------------------------------------- codec: MarshalPacket

\* The tail every MarshalPacket ends with: a space and the payload when
\* there is one, then the delimiter.
DataTail(data) ==
    (IF Len(data) > 0 THEN <<chSpace>> \o data ELSE <<>>) \o <<lineDelim>>

\* InfoPacket, HubPacket and ClientPacket MarshalPacket (the same body).
BaseMarshal(p) == <<p.kind>> \o p.name \o DataTail(p.data)

\* BroadcastPacket.MarshalPacket
BroadcastMarshal(p) ==
    <<p.kind>> \o p.name \o <<chSpace>> \o SIDMarshal(p.id) \o DataTail(p.data)

\* DirectPacket.MarshalPacket and EchoPacket.MarshalPacket
DirectMarshal(p) ==
    <<p.kind>> \o p.name \o <<chSpace>> \o SIDMarshal(p.id) \o <<chSpace>>
        \o SIDMarshal(p.targ) \o DataTail(p.data)

\* The feature tokens of FeaturePacket.MarshalPacket in one iteration order
\* of the map.
RECURSIVE FeatureTokens(_)
FeatureTokens(order) ==
    IF order = <<>> THEN <<>>
    ELSE <<chSpace, IF Head(order)[2] THEN chPlus ELSE chMinus>>
             \o Head(order)[1] \o FeatureTokens(Tail(order))

\* FeaturePacket.MarshalPacket, the map iterated in the given order.
FeatureMarshal(p, order) ==
    <<p.kind>> \o p.name \o <<chSpace>> \o SIDMarshal(p.id)
        \o FeatureTokens(order) \o DataTail(p.data)

\* UDPPacket.MarshalPacket
UDPMarshal(p) ==
    <<p.kind>> \o p.name \o <<chSpace>> \o ToBase32(p.cid) \o DataTail(p.data)

\* The iteration orders of a feature map.
Orderings(fea) ==
    {o \in [1 .. Cardinality(fea) -> fea] : {o[i] : i \in DOMAIN o} = fea}

\* p.MarshalPacket() for a packet of any kind.
MarshalPacket(p, order) ==
    CASE p.kind \in {kindInfo, kindHub, kindClient} -> BaseMarshal(p)
      [] p.kind = kindBroadcast -> BroadcastMarshal(p)
      [] p.kind \in {kindDirect, kindEcho} -> DirectMarshal(p)
      [] p.kind = kindFeature -> FeatureMarshal(p, order)
      [] OTHER -> UDPMarshal(p)

\* ------------------------------------------------- codec: the inputs

\* Sequences over alphabet a of length at most n.
SeqsUpTo(a, n) == UNION {[1 .. k -> a] : k \in 0 .. n}

\* The command name "MSG".
NameMSG == <<77, 83, 71>>
\* The SIDs "AAAA" and "AB2C".
SidA == <<65, 65, 65, 65>>
SidB == <<65, 66, 50, 67>>
\* The feature tags "TCP4" and "NAT0".
TagTCP4 == <<84, 67, 80, 52>>
TagNAT0 == <<78, 65, 84, 48>>
\* Three CIDs: all zero bits, mixed bytes, all one bits.
CidZero == [i \in 1 .. cidLen |-> 0]
CidMixed == [i \in 1 .. cidLen |-> (i * 37) % 256]
CidOnes == [i \in 1 .. cidLen |-> 255]

\* Payloads: no null byte and no delimiter.
Payloads == SeqsUpTo({65, chSpace, chPlus, chMinus}, MaxData)

\* Feature maps over the two tags.
FeatureMaps ==
    {f \in SUBSET ({TagTCP4, TagNAT0} \X BOOLEAN) :
        \A x \in f, y \in f : x[1] = y[1] => x = y}

\* The well-formed packets of the eight kinds.
Packets ==
    {Packet(k, NameMSG, NoSID, NoSID, NoCID, {}, d) :
        k \in {kindInfo, kindHub, kindClient}, d \in Payloads}
    \cup {Packet(kindBroadcast, NameMSG, id, NoSID, NoCID, {}, d) :
             id \in {SidA, SidB}, d \in Payloads}
    \cup {Packet(k, NameMSG, SidA, targ, NoCID, {}, d) :
             k \in {kindDirect, kindEcho}, targ \in {SidA, SidB}, d \in Payloads}
    \cup {Packet(kindFeature, NameMSG, SidB, NoSID, NoCID, f, d) :
             f \in FeatureMaps, d \in Payloads}
    \cup {Packet(kindUDP, NameMSG, NoSID, NoSID, cid, {}, d) :
             cid \in {CidZero, CidMixed, CidOnes}, d \in Payloads}

\* What follows the name in a full frame of each kind, without payload and
\* delimiter ('X' stands for an unknown kind).
HeaderOf(k) ==
    CASE k \in {kindBroadcast} -> <<chSpace>> \o SidA
      [] k \in {kindDirect, kindEcho} -> <<chSpace>> \o SidA \o <<chSpace>> \o SidB
      [] k = kindFeature ->
           <<chSpace>> \o SidA \o <<chSpace, chPlus>> \o TagTCP4
               \o <<chSpace, chMinus>> \o TagNAT0
      [] k = kindUDP -> <<chSpace>> \o ToBase32(CidMixed)
      [] OTHER -> <<>>

\* The first n elements of s, all of s when it is shorter.
Prefix(s, n) == SubSeq(s, 1, IF n < Len(s) THEN n ELSE Len(s))

\* Raw frames: kind, name, the header cut off at any length, then any short
\* tail over space, delimiter, null, a letter and the two sigils.
Frames ==
    {<<k>> \o NameMSG \o Prefix(HeaderOf(k), n) \o t :
        k \in Kinds \cup {88},
        n \in 0 .. Len(HeaderOf(kindUDP)),
        t \in SeqsUpTo({chSpace, lineDelim, chNull, 65, chPlus, chMinus}, MaxFree)}

\* ------------------------------------------------------- client: Dial

\* var ErrPeerOffline, ErrPeerPassive
ErrPeerOffline == "peer is offline"
ErrPeerPassive == "peer is passive"

\* The cases of the select of dialPassive.
SelectCases == {"ctx", "errc", "caddr"}

\* ctx.Done() of the derived context is closed.
CtxDone == dDerived
\* The cases of the select that can proceed in the current state.
ReadyCases ==
    (IF CtxDone THEN {"ctx"} ELSE {}) \cup (dReady \cap {"errc", "caddr"})

\* dialPassive returns ret with the derived context left as it is.
Return_NoCancel(ret) ==
    /\ dRet' = ret
    /\ dPc' = "returned"
    /\ UNCHANGED dDerived

\* dialPassive returns ret after the derived context was created: the
\* deferred cancel() runs.
Return(ret) ==
    /\ dRet' = ret
    /\ dPc' = "returned"
    /\ dDerived' = TRUE

\* The peer, the context and the rendezvous as Dial finds them.
DialInputs ==
    /\ dPeer \in [online : BOOLEAN, tcp4 : BOOLEAN, sid : BOOLEAN]
    /\ dPc = "start"
    /\ dCtx \in {"live", "canceled", "deadline"}
    /\ dDerived = FALSE
    /\ dToken = "none"
    /\ dReady = {}
    /\ dWake = "none"
    /\ dConn = "none"
    /\ dRet = ""

\* The client part is not used by the other specifications.
DialIdle ==
    /\ dPeer = [online |-> FALSE, tcp4 |-> FALSE, sid |-> FALSE]
    /\ dPc = "off"
    /\ dCtx = "live"
    /\ dDerived = FALSE
    /\ dToken = "none"
    /\ dReady = {}
    /\ dWake = "none"
    /\ dConn = "none"
    /\ dRet = ""

\* Lines 23-47: Dial and the head of dialPassive.  The three early returns
\* come before the derived context exists; then context.WithCancel (done at
\* once under a parent that is done), revConnToken registering the token,
\* and adc.Marshal, whose error returns.
DialStart ==
    /\ dPc = "start"
    /\ IF ~dPeer.online \/ ~dPeer.tcp4 \/ ~dPeer.sid
       THEN /\ dRet' = IF ~dPeer.online THEN ErrPeerOffline
                       ELSE IF ~dPeer.tcp4 THEN ErrPeerPassive
                       ELSE ErrPeerOffline
            /\ dPc' = "returned"
            /\ UNCHANGED <<dDerived, dToken>>
       ELSE /\ dToken' = "pending"
            /\ \E ok \in BOOLEAN :
                 IF ok
                 THEN /\ dPc' = "write"
                      /\ dDerived' = (dCtx # "live")
                      /\ UNCHANGED dRet
                 ELSE Return("marshal error")
    /\ UNCHANGED <<hubVars, codecVars, usersVars, activeVars, locksVars, dPeer, dCtx, dReady, dWake, dConn>>

\* Lines 49-55: p.hub.writeCommand of the reverse-connect request.
DialWrite ==
    /\ dPc = "write"
    /\ \E ok \in BOOLEAN :
         IF ok
         THEN /\ dPc' = "select"
              /\ UNCHANGED <<dRet, dDerived>>
         ELSE Return("write error")
    /\ UNCHANGED <<hubVars, codecVars, usersVars, activeVars, locksVars, dPeer, dCtx, dToken, dReady, dWake,
                   dConn>>

\* The body of the select case taken (lines 58-73): the context's error,
\* the hub's error, or adc.Dial(addr) and then the handshake.
Take(case) ==
    CASE case = "ctx" -> Return(dCtx) /\ UNCHANGED dConn
      [] case = "errc" -> Return("hub error") /\ UNCHANGED dConn
      [] OTHER ->
           \E ok \in BOOLEAN :
               IF ok
               THEN /\ dConn' = "open"
                    /\ dPc' = "handshake"
                    /\ UNCHANGED <<dRet, dDerived>>
               ELSE Return("dial error") /\ UNCHANGED dConn

\* Line 57: the select finds no case ready and the goroutine blocks.
Park ==
    /\ dPc = "select"
    /\ ReadyCases = {}
    /\ dPc' = "parked"
    /\ UNCHANGED <<hubVars, codecVars, usersVars, activeVars, locksVars, dPeer, dCtx, dDerived, dToken, dReady,
                   dWake, dConn, dRet>>

\* Line 57: the select finds cases ready and takes any one of them.
SelectReady ==
    /\ dPc = "select"
    /\ \E case \in ReadyCases : Take(case)
    /\ UNCHANGED <<hubVars, codecVars, usersVars, activeVars, locksVars, dPeer, dCtx, dToken, dReady, dWake>>

\* Line 57: the blocked goroutine runs the case that woke it.
Wake ==
    /\ dPc = "parked"
    /\ dWake # "none"
    /\ Take(dWake)
    /\ UNCHANGED <<hubVars, codecVars, usersVars, activeVars, locksVars, dPeer, dCtx, dToken, dReady, dWake>>

\* Lines 65-70: handshakePassive on the new connection; on an error the
\* connection is closed.
Handshake ==
    /\ dPc = "handshake"
    /\ \E ok \in BOOLEAN :
         IF ok
         THEN Return("") /\ UNCHANGED dConn
         ELSE Return("handshake error") /\ dConn' = "closed"
    /\ UNCHANGED <<hubVars, codecVars, usersVars, activeVars, locksVars, dPeer, dCtx, dToken, dReady, dWake>>

\* An event makes a case of the select ready; a blocked goroutine that no
\* earlier event woke is woken for that case.
WakeFor(case) ==
    dWake' = IF dPc = "parked" /\ dWake = "none" THEN case ELSE dWake

\* The caller's context is cancelled or its deadline passes; a derived
\* context that exists is done with it.
Cancel ==
    /\ dCtx = "live"
    /\ dPc \notin {"off", "returned"}
    /\ \E kind \in {"canceled", "deadline"} : dCtx' = kind
    /\ IF dPc = "start"
       THEN UNCHANGED <<dDerived, dWake>>
       ELSE dDerived' = TRUE /\ WakeFor("ctx")
    /\ UNCHANGED <<hubVars, codecVars, usersVars, activeVars, locksVars, dPeer, dPc, dToken, dReady, dConn, dRet>>

\* The peer connects back with the token: its address is sent on caddr.
AddrArrives ==
    /\ dToken = "pending"
    /\ dToken' = "used"
    /\ dReady' = dReady \cup {"caddr"}
    /\ WakeFor("caddr")
    /\ UNCHANGED <<hubVars, codecVars, usersVars, activeVars, locksVars, dPeer, dPc, dCtx, dDerived, dConn, dRet>>

\* The hub answers the request with an error: it is sent on errc.
ErrArrives ==
    /\ dToken = "pending"
    /\ dToken' = "failed"
    /\ dReady' = dReady \cup {"errc"}
    /\ WakeFor("errc")
    /\ UNCHANGED <<hubVars, codecVars, usersVars, activeVars, locksVars, dPeer, dPc, dCtx, dDerived, dConn, dRet>>

\* revConnToken sees its context done and drops the pending token.
TokenAbort ==
    /\ dToken = "pending"
    /\ dDerived
    /\ dToken' = "aborted"
    /\ UNCHANGED <<hubVars, codecVars, usersVars, activeVars, locksVars, dPeer, dPc, dCtx, dDerived, dReady,
                   dWake, dConn, dRet>>

DialNext ==
    \/ DialStart \/ DialWrite \/ Park \/ SelectReady \/ Wake \/ Handshake
    \/ Cancel \/ AddrArrives \/ ErrArrives \/ TokenAbort

\* ------------------------------------------------------ users: database

\* var ErrUserRegDisabled, and the error of a database that fails.
ErrUserRegDisabled == "user registration is disabled"
ErrDB == "database failure"

\* The names and passwords of the calls.
UserNames == {NameA, NameB}
Passwords == {"", "p"}

\* A user database: nil or present; when present, the map of the in-memory
\* database, or an implementation whose calls return an error.
UserDB(present, failing, users) ==
    [present |-> present, failing |-> failing, users |-> users]
NoUserDB == UserDB(FALSE, FALSE, {})

\* db.users[name] = pass
PutUser(users, n, p) == {u \in users : u[1] # n} \cup {<<n, p>>}

\* UserDatabase.RegisterUser (memUsersDB.RegisterUser when it does not fail).
dbRegisterUser(db, n, p) ==
    IF db.failing THEN [err |-> ErrDB, users |-> db.users]
    ELSE [err |-> "", users |-> PutUser(db.users, n, p)]

\* UserDatabase.IsRegistered (memUsersDB.IsRegistered when it does not fail).
dbIsRegistered(db, n) ==
    IF db.failing THEN [ok |-> FALSE, err |-> ErrDB]
    ELSE [ok |-> \E u \in db.users : u[1] = n, err |-> ""]

\* Hub.RegisterUser with the nil database passed on to the call.
RegisterUser_NoNilCheck(db, n, p) ==
    [err |-> "", users |-> PutUser(db.users, n, p)]

\* Hub.RegisterUser
RegisterUser(db, n, p) ==
    IF ~db.present THEN [err |-> ErrUserRegDisabled, users |-> db.users]
    ELSE dbRegisterUser(db, n, p)

\* Hub.IsRegistered
IsRegistered(db, n) ==
    IF ~db.present THEN [ok |-> FALSE, err |-> ""]
    ELSE dbIsRegistered(db, n)

\* The last call made and what it returned.
Call(op, n, p, ok, err) ==
    [op |-> op, name |-> n, pass |-> p, ok |-> ok, err |-> err]
NoCall == Call("none", NoName, "", FALSE, "")

\* Names given to validateUserName: letters, '#', '!', space and a control
\* byte, up to MaxName bytes.
ValidateInputs == SeqsUpTo({97, 35, 33, 32, 1}, MaxName)

UsersInputs ==
    /\ userDB \in {UserDB(present, FALSE, {}) : present \in BOOLEAN}
    /\ uCall = NoCall

\* The users part is not used by the other specifications.
UsersIdle ==
    /\ userDB = NoUserDB
    /\ uCall = NoCall

\* err := h.RegisterUser(name, pass)
RegisterStep ==
    /\ \E n \in UserNames, p \in Passwords :
         LET r == RegisterUser(userDB, n, p)
         IN /\ userDB' = [userDB EXCEPT !.users = r.users]
            /\ uCall' = Call("register", n, p, r.err = "", r.err)
    /\ UNCHANGED <<hubVars, codecVars, dialVars, activeVars, locksVars>>

\* ok, err := h.IsRegistered(name)
IsRegisteredStep ==
    /\ \E n \in UserNames :
         LET r == IsRegistered(userDB, n)
         IN uCall' = Call("isreg", n, "", r.ok, r.err)
    /\ UNCHANGED <<hubVars, codecVars, dialVars, activeVars, locksVars, userDB>>

\* err := h.validateUserName(name)
ValidateStep ==
    /\ \E n \in ValidateInputs :
         uCall' = Call("validate", n, "", validateUserName(n), "")
    /\ UNCHANGED <<hubVars, codecVars, dialVars, activeVars, locksVars, userDB>>

\* The database starts or stops failing.
DBFault ==
    /\ userDB.present
    /\ userDB' = [userDB EXCEPT !.failing = ~@]
    /\ uCall' = NoCall
    /\ UNCHANGED <<hubVars, codecVars, dialVars, activeVars, locksVars>>

UsersNext == RegisterStep \/ IsRegisteredStep \/ ValidateStep \/ DBFault

\* ------------------------------------------- client: handshakeActive

\* adc.FeaBASE, adc.FeaTIGR
FeaBASE == "BASE"
FeaTIGR == "TIGR"

\* The tokens and the CIDs of the handshake; p.hub.CID() is our own.
Tokens == {"t1", "t2"}
PeerIds == {CidMixed, CidOnes}
OurCID == CidZero

\* adc.User{Id, Token}; the zero value before anything was received.
User(id, token) == [id |-> id, token |-> token]
NoUser == User(NoCID, "none")

\* adc.ModFeatures as received: each feature absent, set or cleared.
FeatureStates == [{FeaBASE, FeaTIGR} -> {"absent", "on", "off"}]
NoFeatures == [f \in {FeaBASE, FeaTIGR} |-> "absent"]
IsSet(fea, f) == fea[f] = "on"

\* adc.ClientCmd{Name, Raw} handed to conn.WriteCmd.
ClientCmd(nm, u) == [name |-> nm, user |-> u]

\* The commands read from the connection: a read error, a command that is
\* no ClientCmd, a ClientCmd of another name, a ClientCmd whose Raw does not
\* unmarshal, or one that carries a value.
ReadFaults == {"read error", "expected client command"}

\* handshakeActive returns the error ret ("" for nil).
ActiveReturn(ret) == aRet' = ret /\ aPc' = "returned"

\* The peer expected on the connection and the token given to it.
ActiveInputs ==
    /\ aPc = "readsup"
    /\ aExpect \in {User(id, t) : id \in PeerIds, t \in Tokens}
    /\ aSup = NoFeatures
    /\ aInf = NoUser
    /\ aOut = <<>>
    /\ aRet = ""

\* handshakeActive is not used by the other specifications.
ActiveIdle ==
    /\ aPc = "off"
    /\ aExpect = NoUser
    /\ aSup = NoFeatures
    /\ aInf = NoUser
    /\ aOut = <<>>
    /\ aRet = ""

\* Lines 155-172: the peer's list of features is read and verified.
ReadSup ==
    /\ aPc = "readsup"
    /\ \/ \E e \in ReadFaults \cup {"expected a list of peer's features",
                                   "unmarshal error"} :
            ActiveReturn(e) /\ UNCHANGED aSup
       \/ \E fea \in FeatureStates :
            /\ aSup' = fea
            /\ IF ~IsSet(fea, FeaBASE) \/ ~IsSet(fea, FeaTIGR)
               THEN ActiveReturn("no basic features support for peer")
               ELSE aPc' = "writesup" /\ UNCHANGED aRet
    /\ UNCHANGED <<hubVars, codecVars, usersVars, dialVars, locksVars, aExpect, aInf, aOut>>

\* Lines 174-193: our features are marshalled, written and flushed.
WriteSup ==
    /\ aPc = "writesup"
    /\ \E r \in {"marshal error", "write error", "flush error", ""} :
         /\ aOut' = IF r = "marshal error" THEN aOut
                    ELSE Append(aOut, ClientCmd("SUP", NoUser))
         /\ IF r = ""
            THEN aPc' = "readinf" /\ UNCHANGED aRet
            ELSE ActiveReturn(r)
    /\ UNCHANGED <<hubVars, codecVars, usersVars, dialVars, locksVars, aExpect, aSup, aInf>>

\* Lines 195-213 without the comparison of the token.
ReadInf_NoTokenCheck ==
    /\ aPc = "readinf"
    /\ \/ \E e \in ReadFaults \cup {"expected a peer's identity",
                                   "unmarshal error"} :
            ActiveReturn(e) /\ UNCHANGED aInf
       \/ \E u \in {User(id, t) : id \in PeerIds, t \in Tokens \cup {""}} :
            /\ aInf' = u
            /\ IF u.id # aExpect.id
               THEN ActiveReturn("wrong client connected")
               ELSE aPc' = "writeinf" /\ UNCHANGED aRet
    /\ UNCHANGED <<hubVars, codecVars, usersVars, dialVars, locksVars, aExpect, aSup, aOut>>

\* Lines 195-213: the peer's identification is read and its CID and token
\* are compared with the expected ones.
ReadInf ==
    /\ aPc = "readinf"
    /\ \/ \E e \in ReadFaults \cup {"expected a peer's identity",
                                   "unmarshal error"} :
            ActiveReturn(e) /\ UNCHANGED aInf
       \/ \E u \in {User(id, t) : id \in PeerIds, t \in Tokens \cup {""}} :
            /\ aInf' = u
            /\ IF u.id # aExpect.id
               THEN ActiveReturn("wrong client connected")
               ELSE IF u.token # aExpect.token
               THEN ActiveReturn("wrong auth token")
               ELSE aPc' = "writeinf" /\ UNCHANGED aRet
    /\ UNCHANGED <<hubVars, codecVars, usersVars, dialVars, locksVars, aExpect, aSup, aOut>>

\* Lines 215-232: our identification is marshalled, written and flushed.
WriteInf ==
    /\ aPc = "writeinf"
    /\ \E r \in {"marshal error", "write error", "flush error", ""} :
         /\ aOut' = IF r = "marshal error" THEN aOut
                    ELSE Append(aOut, ClientCmd("INF", User(OurCID, "")))
         /\ ActiveReturn(r)
    /\ UNCHANGED <<hubVars, codecVars, usersVars, dialVars, locksVars, aExpect, aSup, aInf>>

ActiveNext == ReadSup \/ WriteSup \/ ReadInf \/ WriteInf

\* ---------------------------------------------- hub: the locks of Close

\* The goroutine of a chat fan-out, which writes to peers while they close.
ChatId == NumConns + 2

\* Goroutine g is inside Close on peer p at the given stage.
InClose(g, p, stage) == kPc[g] = stage /\ kPeer[g] = p

\* Goroutine g calls p.Close(): the goroutine of a connection closes its own
\* peer, the other goroutine closes any peer it holds.
KStart(g, p) ==
    /\ kPc[g] = "idle"
    /\ g \in Conns => p = g
    /\ kPc' = [kPc EXCEPT ![g] = "close_lock"]
    /\ kPeer' = [kPeer EXCEPT ![g] = p]
    /\ UNCHANGED <<hubVars, codecVars, usersVars, dialVars, activeVars, kCloseMu, kMu, kWmu, kDirMu, kClosed,
                   kDir, kTodo>>

\* Line 352: p.closeMu.Lock()
KCloseLock(g, p) ==
    /\ InClose(g, p, "close_lock")
    /\ kCloseMu[p] = 0
    /\ kCloseMu' = [kCloseMu EXCEPT ![p] = g]
    /\ kPc' = [kPc EXCEPT ![g] = "rlock"]
    /\ UNCHANGED <<hubVars, codecVars, usersVars, dialVars, activeVars, kPeer, kMu, kWmu, kDirMu, kClosed, kDir,
                   kTodo>>

\* Line 354: p.mu.RLock(); no goroutine takes the write side of p.mu.
KRLock(g, p) ==
    /\ InClose(g, p, "rlock")
    /\ kMu' = [kMu EXCEPT ![p] = @ \cup {g}]
    /\ kPc' = [kPc EXCEPT ![g] = "close_check"]
    /\ UNCHANGED <<hubVars, codecVars, usersVars, dialVars, activeVars, kPeer, kCloseMu, kWmu, kDirMu, kClosed,
                   kDir, kTodo>>

\* Close returns with p.closeMu still held.
KUnlockAll_KeepsCloseMu(g, p) ==
    /\ kMu' = [kMu EXCEPT ![p] = @ \ {g}]
    /\ UNCHANGED kCloseMu
    /\ kPc' = [kPc EXCEPT ![g] = "done"]

\* The deferred p.mu.RUnlock() and p.closeMu.Unlock() as Close returns.
KUnlockAll(g, p) ==
    /\ kMu' = [kMu EXCEPT ![p] = @ \ {g}]
    /\ kCloseMu' = [kCloseMu EXCEPT ![p] = 0]
    /\ kPc' = [kPc EXCEPT ![g] = "done"]

\* Lines 356-360: a closed peer returns nil; otherwise conn.Close() runs and
\* the closed flag is set.
KCheck(g, p) ==
    /\ InClose(g, p, "close_check")
    /\ IF kClosed[p]
       THEN KUnlockAll(g, p) /\ UNCHANGED kClosed
       ELSE /\ kClosed' = [kClosed EXCEPT ![p] = TRUE]
            /\ kPc' = [kPc EXCEPT ![g] = "leave_lock"]
            /\ UNCHANGED <<kMu, kCloseMu>>
    /\ UNCHANGED <<hubVars, codecVars, usersVars, dialVars, activeVars, kPeer, kWmu, kDirMu, kDir, kTodo>>

\* Line 362, h.leave: h.peers.Lock()
KLeaveLock(g, p) ==
    /\ InClose(g, p, "leave_lock")
    /\ kDirMu = 0
    /\ kDirMu' = g
    /\ kPc' = [kPc EXCEPT ![g] = "leave"]
    /\ UNCHANGED <<hubVars, codecVars, usersVars, dialVars, activeVars, kPeer, kCloseMu, kMu, kWmu, kClosed, kDir,
                   kTodo>>

\* h.leave under the lock: the entry is removed and the peers that remain
\* are listed; then h.peers.Unlock().
KLeave(g, p) ==
    /\ InClose(g, p, "leave")
    /\ kDirMu = g
    /\ kDir' = kDir \ {p}
    /\ kTodo' = [kTodo EXCEPT ![g] = IF p \in kDir THEN kDir \ {p} ELSE {}]
    /\ kDirMu' = 0
    /\ kPc' = [kPc EXCEPT ![g] = "bcast"]
    /\ UNCHANGED <<hubVars, codecVars, usersVars, dialVars, activeVars, kPeer, kCloseMu, kMu, kWmu, kClosed>>

\* Lines 395-399 and 318-319: BroadcastLeave reaches the next peer p2 and
\* p2.PeersLeave calls p2.writeMessage: p2.wmu.Lock()
KWriteLock(g, p2) ==
    /\ kPc[g] = "bcast"
    /\ p2 \in kTodo[g]
    /\ kWmu[p2] = 0
    /\ kWmu' = [kWmu EXCEPT ![p2] = g]
    /\ kPc' = [kPc EXCEPT ![g] = "write"]
    /\ UNCHANGED <<hubVars, codecVars, usersVars, dialVars, activeVars, kPeer, kCloseMu, kMu, kDirMu, kClosed, kDir,
                   kTodo>>

\* Lines 320-321: the PART is written (or the write fails, which
\* BroadcastLeave ignores) and the deferred p2.wmu.Unlock() runs.
KWriteUnlock(g, p2) ==
    /\ kPc[g] = "write"
    /\ kWmu[p2] = g
    /\ kWmu' = [kWmu EXCEPT ![p2] = 0]
    /\ kTodo' = [kTodo EXCEPT ![g] = @ \ {p2}]
    /\ kPc' = [kPc EXCEPT ![g] = "bcast"]
    /\ UNCHANGED <<hubVars, codecVars, usersVars, dialVars, activeVars, kPeer, kCloseMu, kMu, kDirMu, kClosed, kDir>>

\* Lines 362-363: h.leave has returned and Close returns.
KReturn(g, p) ==
    /\ InClose(g, p, "bcast")
    /\ kTodo[g] = {}
    /\ KUnlockAll(g, p)
    /\ UNCHANGED <<hubVars, codecVars, usersVars, dialVars, activeVars, kPeer, kWmu, kDirMu, kClosed, kDir, kTodo>>

\* Lines 318-321 called by the chat fan-out: a write to peer p begins.
KChatLock(p) ==
    /\ kWmu[p] = 0
    /\ kWmu' = [kWmu EXCEPT ![p] = ChatId]
    /\ UNCHANGED <<hubVars, codecVars, usersVars, dialVars, activeVars, kPc, kPeer, kCloseMu, kMu, kDirMu, kClosed,
                   kDir, kTodo>>

\* The write of the chat fan-out ends and p.wmu is released.
KChatUnlock(p) ==
    /\ kWmu[p] = ChatId
    /\ kWmu' = [kWmu EXCEPT ![p] = 0]
    /\ UNCHANGED <<hubVars, codecVars, usersVars, dialVars, activeVars, kPc, kPeer, kCloseMu, kMu, kDirMu, kClosed,
                   kDir, kTodo>>

\* The steps taken by goroutines inside Close.
CloseSteps ==
    \E g \in Goroutines, p \in Conns :
        \/ KCloseLock(g, p)
        \/ KRLock(g, p)
        \/ KCheck(g, p)
        \/ KLeaveLock(g, p)
        \/ KLeave(g, p)
        \/ KWriteLock(g, p)
        \/ KWriteUnlock(g, p)
        \/ KReturn(g, p)

LocksNext ==
    \/ \E g \in Goroutines, p \in Conns : KStart(g, p)
    \/ CloseSteps
    \/ \E p \in Conns : KChatLock(p) \/ KChatUnlock(p)

\* All peers are live and no goroutine is inside Close.
LocksInputs ==
    /\ kPc = [g \in Goroutines |-> "idle"]
    /\ kPeer = [g \in Goroutines |-> NoPeer]
    /\ kCloseMu = [p \in Conns |-> 0]
    /\ kMu = [p \in Conns |-> {}]
    /\ kWmu = [p \in Conns |-> 0]
    /\ kDirMu = 0
    /\ kClosed = [p \in Conns |-> FALSE]
    /\ kDir = Conns
    /\ kTodo = [g \in Goroutines |-> {}]

\* The lock model is not used by the other specifications.
LocksIdle ==
    /\ kPc = [g \in Goroutines |-> "off"]
    /\ kPeer = [g \in Goroutines |-> NoPeer]
    /\ kCloseMu = [p \in Conns |-> 0]
    /\ kMu = [p \in Conns |-> {}]
    /\ kWmu = [p \in Conns |-> 0]
    /\ kDirMu = 0
    /\ kClosed = [p \in Conns |-> FALSE]
    /\ kDir = {}
    /\ kTodo = [g \in Goroutines |-> {}]

\* Some goroutine inside Close that can run does run, a write mutex that
\* becomes free again and again is handed to a goroutine inside Close that
\* waits for one, and a write of the chat fan-out ends.
LocksFairness ==
    /\ WF_vars(CloseSteps)
    /\ SF_vars(\E g \in Goroutines, p \in Conns : KWriteLock(g, p))
    /\ \A p \in Conns : WF_vars(KChatUnlock(p))

\* ------------------------------------------------------------ hub: Spec

\* The codec is not used by the hub's specification.
CodecIdle ==
    /\ cPkt = NoPkt
    /\ cWire = <<>>
    /\ cOut = NoOut
    /\ cStep = "off"

HubNext ==
    \/ \E c \in Conns :
         \/ ReadNick(c)
         \/ ReadUser(c)
         \/ CheckAvailable(c)
         \/ Reserve(c)
         \/ Unbind(c)
         \/ Welcome(c)
         \/ WaitJoin(c)
         \/ EchoJoin(c)
         \/ Roster(c)
         \/ Accept(c)
         \/ BroadcastUserJoin(c)
         \/ CallOnJoined(c)
         \/ ServeRead(c)
    \/ ExtLookup
    \/ \E g \in Goroutines, p \in Conns :
         \/ CloseLock(g, p)
         \/ CloseCheck(g, p)
         \/ CloseLeave(g, p)

Init == HubInit /\ CodecIdle /\ UsersIdle /\ DialIdle /\ ActiveIdle
    /\ LocksIdle

Spec == Init /\ [][HubNext]_vars

\* A goroutine inside Close keeps running: the scheduler runs it, and the
\* close guard is handed to a goroutine that waits for it.
CloseFairness ==
    \A g \in Goroutines, p \in Conns :
        /\ WF_vars(CloseLock(g, p))
        /\ WF_vars(CloseCheck(g, p))
        /\ WF_vars(CloseLeave(g, p))

SpecFair == Init /\ [][HubNext]_vars /\ CloseFairness

\* -------------------------------------------------------- codec: Spec

\* Either a packet to marshal and decode again, or a raw frame to decode.
CodecInputs ==
    /\ cOut = NoOut
    /\ \/ /\ cStep = "packet"
          /\ cPkt \in Packets
          /\ cWire = <<>>
       \/ /\ cStep = "wire"
          /\ cPkt = NoPkt
          /\ cWire \in Frames

\* buf, err := p.MarshalPacket()
MarshalStep ==
    /\ cStep = "packet"
    /\ \E order \in Orderings(cPkt.fea) : cWire' = MarshalPacket(cPkt, order)
    /\ cStep' = "wire"
    /\ UNCHANGED <<cPkt, cOut, hubVars, auxVars>>

\* A slice expression that reaches past the frame: it panics when the frame
\* fills its backing array, and reads what lies behind the frame otherwise.
Outcomes(r) ==
    IF r.oob THEN {r, [Failed("panic: slice bounds out of range") EXCEPT !.oob = TRUE]}
    ELSE {r}

\* m, err := DecodePacket(buf)
DecodeStep ==
    /\ cStep = "wire"
    /\ cOut' \in Outcomes(DecodePacket(cWire))
    /\ cStep' = "done"
    /\ UNCHANGED <<cPkt, cWire, hubVars, auxVars>>

CodecNext == MarshalStep \/ DecodeStep

\* The hub stays as constructed while the codec runs.
CodecInit == HubInit /\ CodecInputs /\ UsersIdle /\ DialIdle /\ ActiveIdle
    /\ LocksIdle

SpecCodec == CodecInit /\ [][CodecNext]_vars

\* ------------------------------------------------- users, client: Spec

UsersInit == HubInit /\ CodecIdle /\ UsersInputs /\ DialIdle /\ ActiveIdle
    /\ LocksIdle

SpecUsers == UsersInit /\ [][UsersNext]_vars

DialInit == HubInit /\ CodecIdle /\ UsersIdle /\ DialInputs /\ ActiveIdle
    /\ LocksIdle

\* A goroutine woken from the select runs.
SpecDial == DialInit /\ [][DialNext]_vars /\ WF_vars(Wake)

ActiveInit == HubInit /\ CodecIdle /\ UsersIdle /\ DialIdle /\ ActiveInputs
    /\ LocksIdle

SpecActive == ActiveInit /\ [][ActiveNext]_vars

LocksInit ==
    HubInit /\ CodecIdle /\ UsersIdle /\ DialIdle /\ ActiveIdle /\ LocksInputs

SpecLocks == LocksInit /\ [][LocksNext]_vars /\ LocksFairness

\* ---------------------------------------------------------- hub: claims

\* Positions at which a connection holds the reservation it installed.
ReservedPcs == {"welcome", "waitjoin", "echo", "roster", "accept", "unbind"}
\* Positions after the promotion of ircAccept.
PromotedPcs == {"bcast", "joined", "serve", "close_lock", "close_check",
                "close_leave", "done"}

\* A live peer: promoted by ircAccept and not yet removed by a leave.
Live(c) == pc[c] \in PromotedPcs /\ leaveCalls[c] = 0
LivePeers == {c \in Conns : Live(c)}

\* Connection c holds nickname n, as a reservation or as a live peer.
Holds(c, n) == name[c] = n /\ (pc[c] \in ReservedPcs \/ Live(c))
Holders(n) == {c \in Conns : Holds(c, n)}

\* C1: of the handshakes that ask for one nickname at most one holds it at
\* any time; an attempt (the availability check or reserveName) made while
\* another connection holds the name is answered with 433 for that name,
\* returns to the NICK loop and obtains nothing; a reserveName on a name
\* nobody holds obtains the reservation.
C1_OneHandshakeWins ==
    /\ [](\A n \in NickInputs : Cardinality(Holders(n)) <= 1)
    /\ [][\A c \in Conns :
            (pc[c] \in {"avail", "reserve"} /\ pc'[c] # pc[c]) =>
               IF \E d \in Conns \ {c} : Holds(d, name[c])
               THEN /\ pc'[c] = "nick"
                    /\ wrote' = NickTaken(c, name[c])
                    /\ ~Holds(c, name[c])'
                    /\ resOwner'[name[c]] # c
               ELSE pc[c] = "reserve" =>
                       /\ Holds(c, name[c])'
                       /\ name[c] \in reserved'
                       /\ resOwner'[name[c]] = c]_vars

\* C1 witness: a connection has just been answered 433 for a name that
\* another handshake holds as a reservation.
C1_Witness ==
    \E c \in Conns, d \in Conns :
        /\ c # d
        /\ pc[d] \in ReservedPcs
        /\ name[d] = name[c]
        /\ pc[c] = "nick"
        /\ wrote = NickTaken(c, name[c])

\* C2: each nickname has at most one live peer and at most one reservation,
\* and no nickname is both in the reserved map and in the by-name index.
C2_NameHeldOnce ==
    \A n \in NickInputs :
        /\ Cardinality({c \in LivePeers : name[c] = n}) <= 1
        /\ Cardinality({c \in Conns : pc[c] \in ReservedPcs /\ name[c] = n}) <= 1
        /\ ~(n \in reserved /\ PeerByName(n) # NoPeer)

\* C2 witness: one connection is live under a name while another connection
\* holds a reservation, after the live one took the name from the reserved map.
C2_Witness ==
    \E c \in Conns, d \in Conns :
        /\ Live(c)
        /\ PeerByName(name[c]) = c
        /\ pc[d] \in ReservedPcs
        /\ name[d] \in reserved

\* C3: the by-name and by-SID indices have as many entries as there are live
\* peers, and every live peer is found under its name and under its SID.
C3_IndicesAgree ==
    /\ Cardinality(KeysOf(byName)) = Cardinality(LivePeers)
    /\ Cardinality(KeysOf(bySID)) = Cardinality(LivePeers)
    /\ \A c \in LivePeers :
          /\ PeerByName(name[c]) = c
          /\ PeerBySID(sid[c]) = c

\* C3 witness: two peers were accepted and one of them has left since.
C3_Witness ==
    \E c \in Conns, d \in Conns :
        /\ Live(c)
        /\ pc[d] \in PromotedPcs
        /\ leaveCalls[d] = 1
        /\ KeysOf(bySID) = {sid[c]}

\* -------------------------------------------------------- codec: claims

\* The bytes a frame of kind k needs between the name separator and the
\* delimiter: one SID, two SIDs with their separator, or a CID.
HeaderNeed(k) ==
    CASE k \in {kindBroadcast, kindFeature} -> 4
      [] k \in {kindDirect, kindEcho} -> 9
      [] k = kindUDP -> cidTextLen
      [] OTHER -> 0

\* The bytes of frame w after its first five, up to the first delimiter.
RECURSIVE UpToDelim(_)
UpToDelim(s) ==
    IF s = <<>> \/ Head(s) = lineDelim THEN <<>>
    ELSE <<Head(s)>> \o UpToDelim(Tail(s))

HeaderBytes(w) == IF Len(w) > 5 THEN UpToDelim(SliceFrom(w, 5)) ELSE <<>>

\* Frame w may not be decoded: it has a null byte, or does not end with
\* the delimiter, or its header is shorter than its kind requires.
HasNull(w) == \E i \in 1 .. Len(w) : w[i] = chNull
NoDelim(w) == w = <<>> \/ w[Len(w)] # lineDelim
ShortHeader(w) ==
    /\ w # <<>>
    /\ w[1] \in Kinds
    /\ Len(HeaderBytes(w)) < HeaderNeed(w[1])

\* The payload-less frames: kind, name, the addressing fields of the kind
\* and the delimiter.
BareFrames ==
    {MarshalPacket(p, <<>>) : p \in {q \in Packets : q.data = <<>> /\ q.fea = {}}}

\* C4: a packet of any of the eight kinds that was marshalled and decoded
\* again comes back without error as the same packet: same kind, name,
\* SIDs, CID, feature set and payload.
C4_RoundTrip ==
    (cStep = "done" /\ cPkt # NoPkt) => (cOut.err = "" /\ cOut.pkt = cPkt)

\* C5: DecodePacket returns an error for every frame that has a null byte,
\* or whose last byte is not the delimiter, or whose header is shorter than
\* its kind requires.
C5_MalformedRejected ==
    (cStep = "done" /\ (HasNull(cWire) \/ NoDelim(cWire) \/ ShortHeader(cWire)))
        => cOut.err # ""

\* C6: a payload-less frame of any kind is decoded without error into a
\* packet with an empty payload.
C6_BareFrameAccepted ==
    (cStep = "done" /\ cWire \in BareFrames)
        => (cOut.err = "" /\ cOut.pkt.data = <<>>)

\* C7: however many Close calls run on a peer, conn.Close() and hub.leave
\* run at most once, exactly once as soon as one call has returned, and a
\* call that returns after an earlier one has returned changed nothing in the
\* hub and wrote nothing.
C7_CloseOnce ==
    /\ [](\A p \in Conns :
            /\ connCloses[p] <= 1
            /\ leaveCalls[p] <= 1
            /\ closeRet[p] => (connCloses[p] = 1 /\ leaveCalls[p] = 1))
    /\ [][\A p \in Conns :
            (closeRet[p] /\ closeMu[p] # 0 /\ closeMu'[p] = 0) =>
               /\ UNCHANGED <<dirVars, closed, connCloses, leaveCalls>>
               /\ wrote' = {}]_vars

\* C7 witness: a Close call holds the close guard of a peer on which an
\* earlier Close call has already returned.
C7_Witness ==
    \E p \in Conns : closeRet[p] /\ closeMu[p] # 0 /\ closed[p]

\* C8: when the handshake has returned an error, no reservation installed by
\* that connection remains, and its name is available unless another
\* connection holds it.
C8_NoLeakedReservation ==
    \A c \in Conns :
        pc[c] = "failed" =>
           /\ \A n \in reserved : resOwner[n] # c
           /\ (\A d \in Conns \ {c} : ~Holds(d, name[c])) => nameAvailable(name[c])

\* C8 witness: a handshake failed inside ircAccept, after it had reserved its
\* name, and another connection has reserved the same name since.
C8_Witness ==
    \E c \in Conns, d \in Conns :
        /\ pc[c] = "failed"
        /\ sid[c] # 0
        /\ c # d
        /\ pc[d] \in ReservedPcs
        /\ name[d] = name[c]

\* C9: a peer whose Close has closed the connection and set the closed flag
\* is returned by no lookup by name or by SID and by no peer-list snapshot.
C9_ClosedNotObservable ==
    \A p \in Conns :
        closed[p] =>
           /\ \A n \in NickInputs : PeerByName(n) # p
           /\ \A s \in DOMAIN bySID : PeerBySID(s) # p
           /\ p \notin Peers

\* C10: no PRIVMSG to #hub is written to the connection of the peer that
\* sent it.
C10_NoEcho ==
    \A m \in wrote :
        (m.cmd = "PRIVMSG" /\ m.dst = ircHubChan) => m.to # m.about

\* C10 witness: a public message of a subscribed peer was fanned out to
\* another peer.
C10_Witness ==
    \E m \in wrote :
        /\ m.cmd = "PRIVMSG"
        /\ m.dst = ircHubChan
        /\ m.about \in members
        /\ m.to \in members

\* ----------------------------------------------- hub: handshake claims

\* This step validated a nickname for connection c: it read the NICK of a
\* later iteration, or the USER that completes the first one.
ValidatedNick(c) ==
    /\ pc[c] \in {"nick", "user"}
    /\ lastIn'.conn = c
    /\ lastIn'.cmd \in {"nick", "user"}
    /\ pc'[c] # "user"

\* This step is a failed NICK attempt of connection c: the name failed
\* validation, or was found live or reserved by nameAvailable or reserveName.
NickAttemptFailed(c) ==
    \/ ValidatedNick(c) /\ ~validateUserName(name'[c])
    \/ /\ pc[c] \in {"avail", "reserve"}
       /\ pc'[c] # pc[c]
       /\ ~nameAvailable(name[c])

\* The step answered connection c with 433 for its attempted name and left
\* it in the NICK loop.
Answered433(c) ==
    /\ NickTaken(c, name'[c]) \subseteq wrote'
    /\ pc'[c] = "nick"

\* C11: every failed NICK attempt of the IRC handshake, a name that fails
\* validation included, is answered with 433 for that name and the
\* handshake goes on waiting for another NICK.
C11_FailedNickAnswered ==
    [][\A c \in Conns : NickAttemptFailed(c) => Answered433(c)]_vars

\* This step read the first NICK of connection c, for a name that a live
\* peer holds.
FirstNickForLiveName(c) ==
    /\ pc[c] = "nick"
    /\ name[c] = NoName
    /\ lastIn'.conn = c
    /\ lastIn'.cmd = "nick"
    /\ PeerByName(lastIn'.arg) # NoPeer

\* This step read a later NICK of connection c, for a valid name.
LaterNick(c) ==
    /\ pc[c] = "nick"
    /\ name[c] # NoName
    /\ lastIn'.conn = c
    /\ lastIn'.cmd = "nick"
    /\ validateUserName(lastIn'.arg)

\* This step is the reserveName call of connection c for a free name.
ReservesFreeName(c) ==
    /\ pc[c] = "reserve"
    /\ pc'[c] # pc[c]
    /\ nameAvailable(name[c])

\* C12: a first NICK for a name that a live peer holds is answered with 433
\* by the step that reads it, before any USER; a later NICK for a free name
\* goes on to reserve the name and then to the welcome numerics.
C12_NickTakenThenFree ==
    [][\A c \in Conns :
          /\ FirstNickForLiveName(c) =>
                 NickTaken(c, lastIn'.arg) \subseteq wrote'
          /\ LaterNick(c) => pc'[c] = "avail" /\ name'[c] = lastIn'.arg
          /\ ReservesFreeName(c) =>
                 name[c] \in reserved' /\ pc'[c] = "welcome"]_vars

\* C13: the handshake waits for a USER exactly after the first NICK; there
\* anything but a USER with 4 parameters aborts it; on a later iteration
\* the NICK alone is read and the name is checked without a USER.
C13_UserOnlyAfterFirstNick ==
    [][\A c \in Conns :
          /\ (pc[c] = "nick" /\ name[c] = NoName
                /\ lastIn'.conn = c /\ lastIn'.cmd = "nick")
                 => pc'[c] = "user"
          /\ (pc[c] = "user" /\ lastIn'.conn = c /\ lastIn'.cmd # "user")
                 => pc'[c] = "failed"
          /\ (pc[c] # "user" /\ pc'[c] = "user")
                 => pc[c] = "nick" /\ name[c] = NoName
          /\ (pc[c] = "nick" /\ name[c] # NoName
                /\ lastIn'.conn = c /\ lastIn'.cmd = "nick")
                 => pc'[c] \in {"avail", "failed"} /\ name'[c] = lastIn'.arg]_vars

\* C13 witness: on a later iteration a connection that had been answered
\* 433 sent a NICK alone and its new name is about to be checked.
C13_Witness ==
    \E c \in Conns :
        /\ pc[c] = "avail"
        /\ lastIn = In(c, "nick", name[c])

\* ---------------------------------------------------- hub: serve claims

\* What ends the steady-state loop of ServeIRC: read EOF, a read error, a
\* QUIT, a failed write of the PONG, a PRIVMSG without two parameters.
EndCauses == {"eof", "err", "quit", "pingfail", "badprivmsg"}

\* ServeIRC of peer c has just left its loop for one of these causes.
ServeEnded(c) ==
    /\ lastIn.conn = c
    /\ lastIn.cmd \in EndCauses
    /\ pc[c] = "close_lock"

\* Peer c is gone: one leave has run, no index holds the peer, and its
\* nickname is free or held by another connection.
HasLeft(c) ==
    /\ leaveCalls[c] = 1
    /\ c \notin EntriesOf(byName)
    /\ c \notin EntriesOf(bySID)
    /\ c \notin members
    /\ name[c] \in reserved => resOwner[name[c]] # c

\* C14: each of the five causes ends the loop of ServeIRC, and from there
\* the peer's Close completes with exactly one leave, after which the peer
\* is in no index and its nickname is free for another connection.
C14_EndLeadsToOneLeave ==
    /\ [][\A c \in Conns :
             (pc[c] = "serve" /\ lastIn'.conn = c /\ lastIn'.cmd \in EndCauses)
                 => pc'[c] = "close_lock"]_vars
    /\ \A c \in Conns : ServeEnded(c) ~> (pc[c] = "done" /\ HasLeft(c))
    /\ [](\A c \in Conns : pc[c] = "done" => HasLeft(c))

\* C14 witness: a peer has left and another connection holds a reservation
\* of the nickname it had.
C14_Witness ==
    \E c \in Conns, d \in Conns :
        /\ c # d
        /\ pc[c] = "done"
        /\ HasLeft(c)
        /\ name[d] = name[c]
        /\ name[c] \in reserved
        /\ resOwner[name[c]] = d

\* This step handled a PRIVMSG of peer c whose target is not #hub.
PrivateStep(c) ==
    /\ pc[c] = "serve"
    /\ lastIn'.conn = c
    /\ lastIn'.cmd = "pm"

\* C15: a PRIVMSG to a target other than #hub is written to the peer the
\* directory holds under that nickname and to no other connection; when
\* the directory holds no such peer nothing is written at all; either way
\* the sender stays in its loop.
C15_PrivateOnlyToTarget ==
    [][\A c \in Conns :
          PrivateStep(c) =>
              LET q == PeerByName(lastIn'.arg)
              IN /\ pc'[c] = "serve"
                 /\ IF q = NoPeer
                    THEN wrote' = {}
                    ELSE /\ name[q] = lastIn'.arg
                         /\ wrote' = {Msg(q, "PRIVMSG", c, lastIn'.arg)}]_vars

\* C15 witness: a private message of one peer was written to the other
\* peer, which is a subscriber of the main chat like the sender.
C15_Witness ==
    \E c \in Conns, q \in Conns :
        /\ c # q
        /\ lastIn = In(c, "pm", name[q])
        /\ wrote = {Msg(q, "PRIVMSG", c, name[q])}
        /\ {c, q} \subseteq members

\* Peer p has not been promoted by ircAccept yet.
NotYetPromoted(p) ==
    pc[p] \in {"nick", "user", "avail", "reserve", "welcome", "waitjoin",
               "echo", "roster", "accept"}

\* A message about peer p written to another peer's connection by a fan-out
\* that p originates: its chat, its private message, its join announcement.
FanOutOf(p, m) ==
    /\ m.about = p
    /\ m.to # p
    /\ m.cmd \in {"PRIVMSG", "JOIN"}

\* No step writes a public chat message to a peer that is not promoted yet.
NoChatBeforePromotion ==
    \A m \in wrote' :
        (m.cmd = "PRIVMSG" /\ m.dst = ircHubChan) => ~NotYetPromoted(m.to)

\* A message read from a peer that is not promoted yet makes the hub write
\* to no connection but that peer's own.
NoFanOutBeforePromotion ==
    \A c \in Conns :
        (lastIn'.conn = c /\ NotYetPromoted(c)) => \A m \in wrote' : m.to = c

\* Once the leave of a peer has run, no step fans anything out for it.
NoFanOutAfterLeave ==
    \A p \in Conns :
        leaveCalls[p] > 0 => \A m \in wrote' : ~FanOutOf(p, m)

FeatureFrame(w) ==
    /\ Len(w) >= 10
    /\ w[1] = kindFeature
    /\ w[5] = chSpace
    /\ w[Len(w)] = lineDelim
    /\ \A i \in 1 .. Len(w) - 1 : w[i] # lineDelim /\ w[i] # chNull
    /\ Len(w) > 10 => w[10] = chSpace

\* The region of a Feature frame: what follows the SID and its separator.
RegionOf(w) == IF Len(w) > 11 THEN SubSeq(w, 11, Len(w) - 1) ELSE <<>>

\* The feature list and payload of a region as the format defines them:
\* spaces are skipped, a sigil starts a 5-byte token (ok is FALSE when
\* fewer than 5 bytes are left for it), any other byte starts the payload.
\* Of two tokens with one tag the later one counts.
RECURSIVE RegionParse(_)
RegionParse(r) ==
    IF r = <<>> THEN [ok |-> TRUE, fea |-> {}, data |-> <<>>]
    ELSE IF r[1] = chSpace THEN RegionParse(Tail(r))
    ELSE IF r[1] \in {chPlus, chMinus}
    THEN IF Len(r) < 5 THEN [ok |-> FALSE, fea |-> {}, data |-> <<>>]
         ELSE LET rest == RegionParse(SubSeq(r, 6, Len(r)))
                  tag == SubSeq(r, 2, 5)
              IN [rest EXCEPT !.fea =
                     IF \E x \in rest.fea : x[1] = tag THEN rest.fea
                     ELSE rest.fea \cup {<<tag, r[1] = chPlus>>}]
    ELSE [ok |-> TRUE, fea |-> {}, data |-> r]

\* C17: decoding a Feature frame gives the features of the tokens after the
\* SID, true for '+' and false for '-', and as payload exactly the bytes
\* from the first byte at a token start that is neither sigil nor space up
\* to the final delimiter.
C17_FeatureList ==
    (cStep = "done" /\ FeatureFrame(cWire) /\ RegionParse(RegionOf(cWire)).ok)
        => /\ cOut.err = ""
           /\ cOut.pkt.kind = kindFeature
           /\ cOut.pkt.id = SubSeq(cWire, 6, 9)
           /\ cOut.pkt.fea = RegionParse(RegionOf(cWire)).fea
           /\ cOut.pkt.data = RegionParse(RegionOf(cWire)).data

\* C17 witness: the frame "FMSG AAAA +TCP4 -NAT0 A\n" was decoded into the
\* features TCP4 (true) and NAT0 (false) and the payload "A".
C17_Witness ==
    /\ cStep = "done"
    /\ cWire = <<kindFeature>> \o NameMSG \o HeaderOf(kindFeature)
                   \o <<chSpace, 65, lineDelim>>
    /\ cOut.err = ""
    /\ cOut.pkt.fea = {<<TagTCP4, TRUE>>, <<TagNAT0, FALSE>>}
    /\ cOut.pkt.data = <<65>>

\* -------------------------------------------------------- users: claims

\* C18: without a user database RegisterUser returns the registration-
\* disabled error for every name and password and stores nothing, and
\* IsRegistered returns false and no error; with a database both return
\* what the database returns, its error included.
C18_UserDBCalls ==
    /\ [](~userDB.present => userDB.users = {})
    /\ [][/\ uCall'.op = "register" =>
               IF ~userDB.present
               THEN /\ uCall'.err = ErrUserRegDisabled
                    /\ userDB' = userDB
               ELSE LET r == dbRegisterUser(userDB, uCall'.name, uCall'.pass)
                    IN /\ uCall'.err = r.err
                       /\ userDB' = [userDB EXCEPT !.users = r.users]
          /\ uCall'.op = "isreg" =>
               /\ userDB' = userDB
               /\ IF ~userDB.present
                  THEN uCall'.ok = FALSE /\ uCall'.err = ""
                  ELSE LET r == dbIsRegistered(userDB, uCall'.name)
                       IN uCall'.ok = r.ok /\ uCall'.err = r.err]_vars

\* C18 witness: a hub without a user database has answered RegisterUser
\* with the registration-disabled error.
C18_Witness ==
    /\ ~userDB.present
    /\ uCall.op = "register"
    /\ uCall.err = ErrUserRegDisabled

\* A printable byte: the ASCII range from space to tilde.
Printable(b) == b >= 32 /\ b <= 126

\* The Nickname rules: non-empty, printable, not starting with '#' or '!',
\* no whitespace at either end.
NicknameRules(n) ==
    /\ n # <<>>
    /\ \A i \in 1 .. Len(n) : Printable(n[i])
    /\ n[1] \notin {35, 33}
    /\ ~IsSpace(n[1])
    /\ ~IsSpace(n[Len(n)])

\* C19: validateUserName accepts a name exactly when the name satisfies the
\* Nickname rules, and the call changes nothing of the hub.
C19_ValidateIffRules ==
    /\ [](uCall.op = "validate" => (uCall.ok <=> NicknameRules(uCall.name)))
    /\ [][uCall'.op = "validate" => UNCHANGED <<hubVars, userDB>>]_vars


\* --------------------------------------------------------------- C20

\* The caller's context was cancelled while dialPassive was blocked in its
\* select with no case ready: the select was woken for ctx.Done().
CancelledWhileWaiting == dWake = "ctx"

\* dialPassive has returned after it called revConnToken.
ReturnedAfterToken == dPc = "returned" /\ dToken # "none"

\* C20: when the context given to Dial is cancelled while dialPassive waits
\* for the peer's address, no connection to the peer is opened and Dial
\* returns, with the context's error; and whenever dialPassive has returned
\* after calling revConnToken (success, marshal or write error, hub error,
\* dial or handshake error, cancellation), the derived context is done.
C20_CancelWhileWaiting ==
    /\ [](CancelledWhileWaiting => dConn = "none")
    /\ [](CancelledWhileWaiting /\ dPc = "returned"
            => dRet = dCtx /\ dCtx \in {"canceled", "deadline"})
    /\ (CancelledWhileWaiting ~> dPc = "returned")
    /\ [](ReturnedAfterToken => dDerived)

\* Dial returned the context's error after a cancellation that arrived
\* while it waited, although the peer's address arrived afterwards.
C20_Witness ==
    /\ CancelledWhileWaiting
    /\ dPc = "returned"
    /\ dRet = dCtx
    /\ "caddr" \in dReady
    /\ dConn = "none"
    /\ dDerived

\* --------------------------------------------------------------- C21

\* The step promotes connection c: it enters an index of the directory.
Promotes(c) ==
    \/ c \notin EntriesOf(bySID) /\ c \in EntriesOf(bySID')
    \/ c \notin EntriesOf(byName) /\ c \in EntriesOf(byName')

\* The step moves connection c to position to from another position.
Enters(c, to) == pc[c] # to /\ pc'[c] = to

\* C21: in ircAccept the wait for JOIN #hub is entered only by the step that
\* wrote the five numerics 001..005; the echo of the own JOIN follows only a
\* JOIN #hub read in the wait; the roster follows only the echo and is one
\* JOIN per peer present in the directory; the promotion happens only after
\* the whole roster was written.  A JOIN of another channel ends the
\* handshake with no promotion, and a PING read in the wait is answered
\* with PONG and, when that write succeeds, the wait goes on.
C21_AcceptOrder ==
    [][\A c \in Conns :
         /\ Enters(c, "waitjoin") =>
              /\ pc[c] = "welcome"
              /\ wrote' = {Msg(c, Numerics[i], NoPeer, name[c]) : i \in 1 .. 5}
         /\ Enters(c, "echo") =>
              /\ pc[c] = "waitjoin"
              /\ lastIn' = In(c, "joinhub", NoName)
         /\ Enters(c, "roster") =>
              /\ pc[c] = "echo"
              /\ wrote' = {Msg(c, "JOIN", c, ircHubChan)}
         /\ Enters(c, "accept") =>
              /\ pc[c] = "roster"
              /\ wrote' = {Msg(c, "JOIN", q, ircHubChan) : q \in EntriesOf(bySID)}
         /\ Promotes(c) => pc[c] = "accept" /\ pc'[c] = "bcast"
         /\ lastIn' = In(c, "joinother", NoName) =>
              /\ pc'[c] = "unbind"
              /\ ~Promotes(c)
              /\ wrote' = {}
         /\ pc[c] = "unbind" => pc'[c] \notin {"echo", "roster", "accept", "bcast"}
         /\ (pc[c] = "waitjoin" /\ lastIn' = In(c, "ping", NoName)) =>
              /\ wrote' = {Msg(c, "PONG", NoPeer, NoName)}
              /\ pc'[c] = "waitjoin"
    ]_vars

\* A handshake was promoted while the other connection was a live peer, so
\* its roster named that peer; the join broadcast is still to come.
C21_Witness ==
    \E c \in Conns :
        /\ pc[c] = "bcast"
        /\ EntriesOf(bySID) = Conns
        /\ notify[c] = Conns

\* --------------------------------------------------------------- C22

\* The handshake of connection c is complete: ircAccept has returned nil.
HandshakeComplete(c) == pc[c] \in {"joined", "serve"}

\* Peer c has not left: it is in the directory and no Close has begun on it.
NotLeft(c) == PeerBySID(sid[c]) = c /\ ~closed[c] /\ closeMu[c] = 0

\* C22: of two peers whose handshakes are complete and of which neither has
\* left, each was sent a JOIN announcing the other, in its roster or in the
\* join broadcast of the other.
C22_MutualJoin ==
    \A a, b \in Conns :
        (/\ a # b
         /\ HandshakeComplete(a) /\ HandshakeComplete(b)
         /\ NotLeft(a) /\ NotLeft(b))
        => (b \in heard[a] /\ a \in heard[b])

\* --------------------------------------------------------------- C23

\* An identification was handed to conn.WriteCmd.
WroteIdentification == \E i \in 1 .. Len(aOut) : aOut[i].name = "INF"

\* The peer's identification was received and does not match.
Mismatch == aInf # NoUser /\ (aInf.id # aExpect.id \/ aInf.token # aExpect.token)

\* C23: in handshakeActive our identification, carrying our own CID, is
\* written only after the peer's features with BASE and TIGR set and the
\* peer's identification with the expected CID and the expected token were
\* received; on a CID or token that does not match the handshake returns an
\* error and no identification is written, then or later.
C23_IdentifyAfterVerify ==
    /\ [](WroteIdentification =>
            /\ IsSet(aSup, FeaBASE) /\ IsSet(aSup, FeaTIGR)
            /\ aInf = aExpect
            /\ \A i \in 1 .. Len(aOut) :
                 aOut[i].name = "INF" => aOut[i].user = User(OurCID, ""))
    /\ [](Mismatch => aPc = "returned" /\ aRet # "" /\ ~WroteIdentification)
    /\ [][aPc = "returned" => aOut' = aOut]_vars

\* The peer's identification had the expected CID and another token, and
\* the handshake returned the token error after our features were written.
C23_Witness ==
    /\ aInf.id = aExpect.id
    /\ aInf.token \in Tokens \ {aExpect.token}
    /\ aRet = "wrong auth token"
    /\ Len(aOut) = 1

\* --------------------------------------------------------------- C24

\* Goroutine g is inside a call of Close that has not returned.
Closing(g) == kPc[g] \notin {"idle", "done"}

\* C24: with peers closing concurrently, some goroutine inside Close can
\* always take a step or a write that holds a mutex it waits for can end,
\* and every call of Close returns.
C24_CloseReturns ==
    /\ []((\E g \in Goroutines : Closing(g)) =>
            ENABLED (CloseSteps \/ \E p \in Conns : KChatUnlock(p)))
    /\ \A g \in Goroutines : Closing(g) ~> kPc[g] = "done"

\* Two goroutines were inside Close at once, one waiting for the directory
\* lock held by the other, while a third write held a peer's wmu.
C24_Witness ==
    \E g, h \in Goroutines :
        /\ g # h
        /\ kPc[g] = "leave" /\ kDirMu = g
        /\ kPc[h] = "leave_lock"
        /\ \E p \in Conns : kWmu[p] = ChatId

\* --------------------------------------------------------------- C25

\* The region of frame w has, at the start of a token, a sigil with fewer
\* than 4 tag bytes between it and the final delimiter.
ShortToken(w) == FeatureFrame(w) /\ ~RegionParse(RegionOf(w)).ok

\* C25: decoding a Feature frame whose region ends in a sigil followed by
\* fewer than 4 tag bytes returns the "short feature" error and reads no
\* position at or past the end of the frame.
C25_ShortFeatureInBounds ==
    (cStep = "done" /\ ShortToken(cWire))
        => (cOut.err = "short feature" /\ ~cOut.oob)
=============================================================================
